---- MODULE Spec2Model ----
(***************************************************************************)
(* Order lifecycle, notification and reconciliation of CVBot (src/bot.py). *)
(*                                                                         *)
(* Scheduling: python-telegram-bot handles one update to completion before *)
(* the next one, so at most one handler is in flight (hpc).  The poller    *)
(* poll_order_status_changes is a separate asyncio task on the same loop:  *)
(* it and the handler in flight can only interleave at an await, and the   *)
(* awaits that separate a read of the shared session from a write to it    *)
(* are the notification sends and the caption edit of the admin handlers   *)
(* and the sends of the poller.  Every other handler changes the session   *)
(* and the order store in one await-free stretch and is one action.        *)
(***************************************************************************)
EXTENDS Integers, Sequences, FiniteSets, TLC

\* ---------------------------------------------------------------- bounds
MaxOrders == 1          \* orders ever created
MaxItems == 3           \* items a section sequence of a session holds
StoredOrders == 3       \* orders in the store when the bot starts, in the /payment runs

\* ---------------------------------------------------------------- values
Users == {1, 2}                       \* telegram ids; a private chat's id is the user's id
GroupChat == -1                       \* a group chat the bot is a member of
Parties == {1}                        \* the users whose events Spec draws
Terminal == {"verified", "rejected"}
Decisions == {"approve", "reject"}

END == "END"
SELECT_LANGUAGE == "SELECT_LANGUAGE"
START == "START"
COLLECT_PERSONAL_INFO == "COLLECT_PERSONAL_INFO"
COLLECT_CONTACT_INFO == "COLLECT_CONTACT_INFO"
COLLECT_PROFILE_IMAGE == "COLLECT_PROFILE_IMAGE"
COLLECT_PROFESSIONAL_INFO == "COLLECT_PROFESSIONAL_INFO"
COLLECT_EDUCATION == "COLLECT_EDUCATION"
COLLECT_SKILLS == "COLLECT_SKILLS"
COLLECT_CAREER_OBJECTIVE == "COLLECT_CAREER_OBJECTIVE"
COLLECT_CERTIFICATIONS == "COLLECT_CERTIFICATIONS"
COLLECT_PROJECTS == "COLLECT_PROJECTS"
COLLECT_LANGUAGES == "COLLECT_LANGUAGES"
COLLECT_ACTIVITIES == "COLLECT_ACTIVITIES"
CONFIRM_ORDER == "CONFIRM_ORDER"
PAYMENT == "PAYMENT"

\* the states of the repeated sections
RepeatedSections ==
    {COLLECT_PROFESSIONAL_INFO, COLLECT_EDUCATION, COLLECT_SKILLS,
     COLLECT_CERTIFICATIONS, COLLECT_PROJECTS, COLLECT_LANGUAGES}

VARIABLES
    user_sessions,   \* self.user_sessions: telegram id -> session dict (partial function)
    session_keys,    \* insertion order of the keys of self.user_sessions
    orders,          \* the order store: sequence of orders, the id is the index
    channel,         \* what the bot has forwarded to the administrative channel
    conv,            \* per user: state of conv_handler
    retry_conv,      \* per user: state of payment_retry_handler
    hpc,             \* position of the admin handler in flight
    hctx,            \* its local variables
    poll_pc,         \* position of poll_order_status_changes
    poll_snap,       \* the part of its list(self.user_sessions.items()) not yet done
    poll_msg,        \* the notification the poller is sending
    sent_for,        \* per order: deliveries since its last terminal transition
    ev,              \* the step that produced this state
    kb,              \* per user: the unpressed keyboards in the user's private chat
    store,           \* per user: the persisted candidate and its sub-collections
    focus,           \* the states and the run in which the party's events are drawn in full
    resolver         \* self.user_cache and the call of resolve_username_to_id in flight

vars == << user_sessions, session_keys, orders, channel, conv, retry_conv,
           hpc, hctx, poll_pc, poll_snap, poll_msg, sent_for, ev, kb, store, focus,
           resolver >>

\* what the admin handlers and the poller leave alone
wizard == << kb, store, focus, resolver >>

\* ---------------------------------------------------------------- sessions
\* A dict with string keys is a function on the keys it has.  A stored value is
\* "text" (what the party typed), "none" (None) or, for a draft field left
\* behind when the party went on to another section, "stale".
EmptyDict == << >>

Put(d, k, v) == (k :> v) @@ d

\* str.lower and str.strip on the pieces of text that occur
Lower(str) ==
    CASE str = "Approve" -> "approve"
      [] str = "Skip" -> "skip"
      [] str = "Reject:" -> "reject:"
      [] str = " Blurry Receipt" -> " blurry receipt"
      [] str = "Abel" -> "abel"
      [] OTHER -> str

Strip(str) ==
    CASE str = " blurry receipt" -> "blurry receipt"
      [] str = " Blurry Receipt" -> "Blurry Receipt"
      [] OTHER -> str

\* get_user_session's default dict has neither chat_id, order_id nor notified.
\* 0 stands for an absent chat_id / order_id key, "absent" for an absent notified
\* key, "" for current_field None.  candidate_data is kept without its
\* availability entry, which nothing changes.  summary_message_id is "set"
\* while the session holds the id of the summary sent last.
DefaultSession ==
    [chat_id |-> 0, order_id |-> 0, notified |-> "absent", summary_message_id |-> "absent",
     language |-> "en", candidate_data |-> EmptyDict, current_field |-> "",
     careerObjectives |-> << >>, skills |-> << >>, education |-> << >>,
     languages |-> << >>, workExperiences |-> << >>, certificationsAwards |-> << >>,
     otherActivities |-> << >>, projects |-> << >>,
     current_work_experience |-> EmptyDict, current_education |-> EmptyDict,
     current_skill |-> EmptyDict, current_certification |-> EmptyDict,
     current_project |-> EmptyDict, current_language |-> EmptyDict]

\* the session keys that hold sub-collections, and the drafts of their items
Collections ==
    {"workExperiences", "education", "skills", "careerObjectives",
     "certificationsAwards", "projects", "languages", "otherActivities"}

Drafts ==
    {"current_work_experience", "current_education", "current_skill",
     "current_certification", "current_project", "current_language"}

HasSession(u) == u \in DOMAIN user_sessions

\* self.user_sessions after get_user_session(u)
SessionsWith(u) ==
    IF HasSession(u) THEN user_sessions ELSE (u :> DefaultSession) @@ user_sessions

KeysWith(u) ==
    IF HasSession(u) THEN session_keys ELSE Append(session_keys, u)

\* session.get('notified', False)
NotifiedGet(s) == s.notified = "true"

\* the usual handler prologue: get_user_session + session['chat_id'] = the id
\* of the chat the update comes from
PrologueIn(u, chat) == [SessionsWith(u)[u] EXCEPT !.chat_id = chat]

\* the prologue for an update from the user's private chat
Prologue(u) == PrologueIn(u, u)

SeqWithout(sq, u) == SelectSeq(sq, LAMBDA x : x # u)

\* ev records what the last step was when it is one the properties talk about
\* (an admin decision and its outcome, a failed send, an aborted tick), and is
\* blank otherwise
NoText == [prefix |-> "", tail |-> ""]

\* what the party sent at COLLECT_PROFILE_IMAGE, when the step is that handler's
NoUpload == [kind |-> "", text |-> "", size |-> 0, mime |-> "", ext |-> "", sends |-> FALSE]

NoEv ==
    [op |-> "", oid |-> 0, res |-> "", left |-> {}, txt |-> NoText, upload |-> NoUpload]

Ev(op, oid, res) ==
    [op |-> op, oid |-> oid, res |-> res, left |-> {}, txt |-> NoText, upload |-> NoUpload]

\* A payment-evidence message of the administrative channel: its caption and
\* the tokens of its two buttons name the uploader and the order.  A forwarded
\* profile image names the uploader only and has no buttons (order 0).  Whether a
\* caption edit has already taken the buttons off is not tracked: while an order
\* awaits verification the message of its last upload still has them, and a
\* press for an order in any other state changes nothing that a reply to the
\* same message would not change.
Msg(u, o) == [uid |-> u, oid |-> o]

\* an outbound notification: the order it is about, its text, its destination
NoNote == [oid |-> 0, kind |-> "", reason |-> "", chat |-> 0]
Note(oid, kind, reason, chat) == [oid |-> oid, kind |-> kind, reason |-> reason, chat |-> chat]

NoCtx == [uid |-> 0, note |-> NoNote]

\* ---------------------------------------------------------------- orders
NewOrder(u) == [telegramUserId |-> u, status |-> "awaiting_payment", statusDetails |-> ""]

\* Order.update_status: the generic setter the evidence upload calls
UpdateStatus(o, status, details) ==
    [orders EXCEPT ![o] = [@ EXCEPT !.status = status, !.statusDetails = details]]

\* Order.approve_payment / reject_payment raise unless the order awaits verification
CanDecide(o) == orders[o].status = "pending_verification"

ApprovePayment(o) == UpdateStatus(o, "verified", "")

RejectPayment(o, reason) == UpdateStatus(o, "rejected", reason)

\* sent_for counts 0, 1, "2 or more"
Inc(n) == IF n < 2 THEN n + 1 ELSE 2

\* The keyboards of the party's chat that are still unpressed: per repeated
\* section the add-another/continue keyboards (0, 1, or 2 for two and more),
\* the continue keyboards of the profile image, and under "menu" the edit
\* menus of get_profile_sections_keyboard.
Keyboards == RepeatedSections \cup {COLLECT_PROFILE_IMAGE, "menu"}

NoKeyboards == [k \in Keyboards |-> 0]

Shown(kbs, k) == [kbs EXCEPT ![k] = Inc(@)]

\* a pressed keyboard is replaced by the text of edit_message_text
Pressed(kbs, k) == [kbs EXCEPT ![k] = @ - 1]

\* no part of the wizard is gone through in detail
NoFocus == [at |-> "none", run |-> 0]

\* the stored candidate of a user and its sub-collections
NoCandidate ==
    [exists |-> FALSE, candidate_data |-> EmptyDict,
     careerObjectives |-> << >>, skills |-> << >>, education |-> << >>,
     languages |-> << >>, workExperiences |-> << >>, certificationsAwards |-> << >>,
     otherActivities |-> << >>, projects |-> << >>]

\* no handle cached, no call of resolve_username_to_id made; resolved keeps the
\* handles an external tier has resolved, as they were given, with the id found
NoResolver ==
    [user_cache |-> << >>, pc |-> "idle", username |-> "", calls |-> << >>,
     user_id |-> 0, raised |-> FALSE, resolved |-> {}]

Init ==
    /\ user_sessions = << >>
    /\ session_keys = << >>
    /\ orders = << >>
    /\ channel = {}
    /\ conv = [u \in Users |-> END]
    /\ retry_conv = [u \in Users |-> END]
    /\ hpc = "idle"
    /\ hctx = NoCtx
    /\ poll_pc = "sleep"
    /\ poll_snap = << >>
    /\ poll_msg = NoNote
    /\ sent_for = << >>
    /\ ev = NoEv
    /\ kb = [u \in Users |-> NoKeyboards]
    /\ store = [u \in Users |-> NoCandidate]
    /\ focus = NoFocus
    /\ resolver = NoResolver

\* A handler drops or replaces the dict of user u while the poller is suspended:
\* the poller's snapshot keeps the old dict object, which nothing else can reach.
Detach(u) ==
    [i \in DOMAIN poll_snap |->
        IF poll_snap[i].id = u /\ poll_snap[i].live
        THEN [id |-> u, live |-> FALSE, s |-> user_sessions[u]]
        ELSE poll_snap[i]]

\* ---------------------------------------------------------------- wizard
\* /start, the entry point of conv_handler
Start(u) ==
    /\ UNCHANGED wizard
    /\ hpc = "idle"
    /\ conv[u] = END
    /\ user_sessions' = (u :> Prologue(u)) @@ user_sessions
    /\ session_keys' = KeysWith(u)
    /\ conv' = [conv EXCEPT ![u] = SELECT_LANGUAGE]
    /\ ev' = NoEv
    /\ UNCHANGED << orders, channel, retry_conv, hpc, hctx, poll_pc, poll_snap,
                    poll_msg, sent_for >>

\* an item with every field of its section typed in
Filled(fields) == [f \in fields |-> "text"]

WorkFields == {"jobTitle", "companyName", "location", "description"}
EducationFields == {"degreeName", "institutionName", "gpa", "description", "achievementsHonors"}
SkillFields == {"skillName", "proficiency"}
CertificationFields == {"certificateName", "issuer"}
ProjectFields == {"projectTitle", "description", "projectLink"}
LanguageFields == {"languageName", "proficiencyLevel"}
PersonalFields ==
    {"firstName", "middleName", "lastName", "phoneNumber", "emailAddress",
     "linkedinProfile", "city", "country"}

\* The session after a run in which the party picks English and a new CV,
\* types a text for every field, skips the profile image, enters one item per
\* section and presses 'continue' at every keyboard.
PlainRun(s) ==
    [s EXCEPT !.language = "en",
              !.candidate_data = Filled(PersonalFields) @@ @,
              !.current_field = "lang_proficiencyLevel",
              !.workExperiences = Append(@, Filled(WorkFields)),
              !.current_work_experience = EmptyDict,
              !.education = Append(@, Filled(EducationFields)),
              !.current_education = EmptyDict,
              !.skills = << >>,
              !.careerObjectives = Append(@, [summaryText |-> "text"]),
              !.certificationsAwards = Append(@, Filled(CertificationFields)),
              !.current_certification = EmptyDict,
              !.projects = Append(@, Filled(ProjectFields)),
              !.current_project = EmptyDict,
              !.languages = Append(@, Filled(LanguageFields)),
              !.current_language = EmptyDict,
              !.otherActivities = Append(@, [activityType |-> "Other", description |-> "text"]),
              !.summary_message_id = "set"]

\* The collecting handlers from select_language to collect_activities, taken
\* in one step: each runs the prologue, none touches order_id or notified.
\* The last field asked is the one of collect_languages, the last message sent
\* is the summary.  What they write into the other profile keys is left out
\* here; WizardSpec goes through them one by one.
CollectProfile(u) ==
    /\ hpc = "idle"
    /\ conv[u] \in {SELECT_LANGUAGE, COLLECT_PERSONAL_INFO}
    /\ user_sessions' = (u :> [Prologue(u) EXCEPT !.current_field = "lang_proficiencyLevel",
                                                  !.summary_message_id = "set"])
                          @@ user_sessions
    /\ session_keys' = KeysWith(u)
    /\ conv' = [conv EXCEPT ![u] = CONFIRM_ORDER]
    /\ ev' = NoEv
    /\ UNCHANGED << orders, channel, retry_conv, hpc, hctx, poll_pc, poll_snap,
                    poll_msg, sent_for >>
    /\ UNCHANGED wizard

\* The candidate is created from candidate_data, or the stored one gets the
\* keys of candidate_data set; the stored sub-collections are deleted and the
\* session's items saved in their place.
Saved(s, c) ==
    [exists |-> TRUE,
     candidate_data |-> IF c.exists THEN s.candidate_data @@ c.candidate_data
                        ELSE s.candidate_data,
     careerObjectives |-> s.careerObjectives, skills |-> s.skills,
     education |-> s.education, languages |-> s.languages,
     workExperiences |-> s.workExperiences,
     certificationsAwards |-> s.certificationsAwards,
     otherActivities |-> s.otherActivities, projects |-> s.projects]

\* The party presses the buttons of the summary sent last, the one whose id
\* the session holds.
SummaryShown(s) == s.summary_message_id = "set"

\* A session holds an order that awaits payment from the confirm that created
\* the order until the evidence upload that ends the run (/cancel drops the
\* session): at CONFIRM_ORDER such an order is one of a confirm of this run
\* whose last send raised.
OrderOfRun(u) ==
    IF HasSession(u) /\ user_sessions[u].order_id # 0
    THEN orders[user_sessions[u].order_id].status = "awaiting_payment"
    ELSE FALSE

\* MaxOrders bounds the orders of different runs; a confirm repeated in its run
\* adds one more
OrdersLeft(u) ==
    \/ Len(orders) < MaxOrders
    \/ Len(orders) = MaxOrders /\ OrderOfRun(u)

\* confirm_order with "confirm_yes": the summary is deleted (a failure of the
\* deletion is logged and passed over), the profile is saved, a new order is
\* saved and attached, and the payment instructions are sent.  When that last
\* send raises, the handler returns no state and the conversation stays at
\* CONFIRM_ORDER with everything before it done.
ConfirmOrder(u, deleted, sent) ==
    /\ hpc = "idle"
    /\ conv[u] = CONFIRM_ORDER
    /\ SummaryShown(Prologue(u))
    /\ OrdersLeft(u)
    /\ LET id == Len(orders) + 1 IN
        /\ orders' = Append(orders, NewOrder(u))
        /\ sent_for' = Append(sent_for, 0)
        /\ user_sessions' = (u :> [Prologue(u) EXCEPT
                                      !.summary_message_id = IF deleted THEN "absent" ELSE @,
                                      !.order_id = id,
                                      !.notified = "false"])
                              @@ user_sessions
        /\ ev' = Ev("confirm_yes", 0, IF sent THEN "" ELSE "send_failed")
    /\ store' = [store EXCEPT ![u] = Saved(Prologue(u), @)]
    /\ session_keys' = KeysWith(u)
    /\ conv' = [conv EXCEPT ![u] = IF sent THEN PAYMENT ELSE CONFIRM_ORDER]
    /\ UNCHANGED << channel, retry_conv, hpc, hctx, poll_pc, poll_snap, poll_msg,
                    kb, focus, resolver >>

\* "edit_no" with the dict kept: only the field asked next is set
ResetSessionNot(s) == [s EXCEPT !.current_field = "firstName"]

\* the fresh dict of "edit_no": only language and chat_id are kept
ResetSession(s) ==
    [DefaultSession EXCEPT !.language = s.language, !.chat_id = s.chat_id,
                           !.current_field = "firstName"]

\* the buttons of get_profile_sections_keyboard
EditJumps ==
    {"edit_personal", "edit_contact", "edit_profile_image", "edit_work",
     "edit_education", "edit_skills", "edit_career", "edit_certs", "edit_projects",
     "edit_languages", "edit_activities"}

\* the session after a jump of the edit menu
Jumped(s, data) ==
    CASE data = "edit_personal" -> [s EXCEPT !.current_field = "firstName"]
      [] data = "edit_contact" -> [s EXCEPT !.current_field = "phoneNumber"]
      [] data = "edit_profile_image" -> [s EXCEPT !.current_field = ""]
      [] data = "edit_work" ->
            [s EXCEPT !.workExperiences = << >>, !.current_field = "work_jobTitle"]
      [] data = "edit_education" ->
            [s EXCEPT !.education = << >>, !.current_field = "edu_degreeName",
                      !.current_education = EmptyDict]
      [] data = "edit_skills" ->
            [s EXCEPT !.skills = << >>, !.current_field = "skill_skillName",
                      !.current_skill = EmptyDict]
      [] data = "edit_career" -> [s EXCEPT !.careerObjectives = << >>]
      [] data = "edit_certs" ->
            [s EXCEPT !.certificationsAwards = << >>, !.current_field = "cert_certificateName",
                      !.current_certification = EmptyDict]
      [] data = "edit_projects" ->
            [s EXCEPT !.projects = << >>, !.current_field = "project_projectTitle",
                      !.current_project = EmptyDict]
      [] data = "edit_languages" ->
            [s EXCEPT !.languages = << >>, !.current_field = "lang_languageName",
                      !.current_language = EmptyDict]
      [] data = "edit_activities" -> [s EXCEPT !.otherActivities = << >>]

\* the state edit_info returns for a jump
JumpState(data) ==
    CASE data = "edit_personal" -> COLLECT_PERSONAL_INFO
      [] data = "edit_contact" -> COLLECT_CONTACT_INFO
      [] data = "edit_profile_image" -> COLLECT_PROFILE_IMAGE
      [] data = "edit_work" -> COLLECT_PROFESSIONAL_INFO
      [] data = "edit_education" -> COLLECT_EDUCATION
      [] data = "edit_skills" -> COLLECT_SKILLS
      [] data = "edit_career" -> COLLECT_CAREER_OBJECTIVE
      [] data = "edit_certs" -> COLLECT_CERTIFICATIONS
      [] data = "edit_projects" -> COLLECT_PROJECTS
      [] data = "edit_languages" -> COLLECT_LANGUAGES
      [] data = "edit_activities" -> COLLECT_ACTIVITIES

\* edit_info, routed at CONFIRM_ORDER.  "edit_no" is on the summary's keyboard:
\* the dict is replaced by a fresh one, without the summary's id.  The other buttons are on an edit menu
\* that is still unpressed.
EditInfo(u, data) ==
    /\ hpc = "idle"
    /\ conv[u] = CONFIRM_ORDER
    /\ IF data = "edit_no"
       THEN /\ SummaryShown(Prologue(u))
            /\ user_sessions' = (u :> ResetSession(Prologue(u))) @@ user_sessions
            /\ poll_snap' = Detach(u)
            /\ conv' = [conv EXCEPT ![u] = COLLECT_PERSONAL_INFO]
            /\ UNCHANGED kb
       ELSE /\ data \in EditJumps
            /\ kb[u]["menu"] > 0
            /\ user_sessions' = (u :> Jumped(Prologue(u), data)) @@ user_sessions
            /\ conv' = [conv EXCEPT ![u] = JumpState(data)]
            /\ kb' = [kb EXCEPT ![u] = Pressed(@, "menu")]
            /\ UNCHANGED poll_snap
    /\ session_keys' = KeysWith(u)
    /\ ev' = Ev(data, 0, "")
    /\ UNCHANGED << orders, channel, retry_conv, hpc, hctx, poll_pc, poll_msg,
                    sent_for, store, focus, resolver >>

\* /cancel, the fallback of both conversation handlers; conv_handler is asked
\* first, and at COLLECT_PROFILE_IMAGE its text filter takes the command
Cancel(u) ==
    /\ UNCHANGED wizard
    /\ hpc = "idle"
    /\ conv[u] # END \/ retry_conv[u] # END
    /\ conv[u] # COLLECT_PROFILE_IMAGE
    /\ user_sessions' = [x \in DOMAIN user_sessions \ {u} |-> user_sessions[x]]
    /\ session_keys' = SeqWithout(session_keys, u)
    /\ poll_snap' = IF HasSession(u) THEN Detach(u) ELSE poll_snap
    /\ IF conv[u] # END
       THEN conv' = [conv EXCEPT ![u] = END] /\ UNCHANGED retry_conv
       ELSE retry_conv' = [retry_conv EXCEPT ![u] = END] /\ UNCHANGED conv
    /\ ev' = Ev("cancel", 0, "")
    /\ UNCHANGED << orders, channel, hpc, hctx, poll_pc, poll_msg, sent_for >>

\* ---------------------------------------------------------------- wizard, handler by handler
\* What the party types where a handler looks at the text; everywhere else
\* the text is stored as it is and "text" stands for it.
Answers == {"text", "skip", "Skip"}

\* The sentinel stored like any other text.
OptionalKept(text) == text

\* update.message.text if update.message.text.lower() != 'skip' else None
Optional(text) == IF Lower(text) # "skip" THEN text ELSE "none"

\* session[draft][key] = value; session['current_field'] = next
SetField(s, draft, key, value, next) ==
    [s EXCEPT ![draft] = Put(@, key, value), !.current_field = next]

\* session[coll].append(session[draft].copy()); session[draft] = {}
AppendDraft(s, coll, draft) ==
    [s EXCEPT ![coll] = Append(@, s[draft]), ![draft] = EmptyDict]

\* A section entered with the draft it was left with.
ClearedNot(draft) == draft

\* session[draft] = {} on the way into a section
Cleared(draft) == EmptyDict

\* The draft of the section the party leaves with 'continue' stays as it is in
\* the code; its values are marked so that they can be told from later input.
Left(draft) == [k \in DOMAIN draft |-> "stale"]

\* appends stop at MaxItems
Room(s, coll) == Len(s[coll]) < MaxItems

\* What every wizard handler does besides its own assignments: the dict of the
\* prologue is stored, the returned state becomes the conversation's state.
Handled(u, s, next, kbs, e) ==
    /\ user_sessions' = (u :> s) @@ user_sessions
    /\ session_keys' = KeysWith(u)
    /\ conv' = [conv EXCEPT ![u] = next]
    /\ kb' = [kb EXCEPT ![u] = kbs]
    /\ ev' = e
    /\ UNCHANGED << orders, channel, retry_conv, hpc, hctx, poll_pc, poll_snap,
                    poll_msg, sent_for, store, focus, resolver >>

\* the step in which the party typed a text
Typed == Ev("text", 0, "")

\* the step in which the party answered 'skip' for an optional attribute
Skipped(text, attribute) ==
    IF Lower(text) = "skip" THEN Ev("skip", 0, attribute) ELSE Typed

select_language(u, lang) ==
    /\ hpc = "idle"
    /\ conv[u] = SELECT_LANGUAGE
    /\ Handled(u, [Prologue(u) EXCEPT !.language = lang], START, kb[u], NoEv)

\* candidate.to_dict() and get_complete_profile() copied into the session
Loaded(s, c) ==
    [s EXCEPT !.candidate_data = c.candidate_data,
              !.workExperiences = c.workExperiences,
              !.education = c.education,
              !.skills = c.skills,
              !.careerObjectives = c.careerObjectives,
              !.certificationsAwards = c.certificationsAwards,
              !.projects = c.projects,
              !.languages = c.languages,
              !.otherActivities = c.otherActivities]

\* "update_profile" and "new_cv" at START.  The state's text handler is this
\* function too: with a text there is no callback query, query.answer() raises
\* before the session is touched, and error_handler answers.
start_collecting_info(u, data) ==
    /\ hpc = "idle"
    /\ conv[u] = START
    /\ data \in {"update_profile", "new_cv", "text"}
    /\ LET s == Prologue(u) IN
       IF data = "text"
       THEN Handled(u, SessionsWith(u)[u], START, kb[u], Ev("text", 0, "error"))
       ELSE IF data = "update_profile"
       THEN IF ~ store[u].exists
            THEN Handled(u, s, START, kb[u], Ev(data, 0, "error"))
            ELSE Handled(u, Loaded(s, store[u]), START, Shown(kb[u], "menu"),
                         Ev(data, 0, "menu"))
       ELSE Handled(u, [s EXCEPT !.current_field = "firstName"],
                    COLLECT_PERSONAL_INFO, kb[u], Ev(data, 0, ""))

\* "guide_video" and "samples" at START: the menu is sent again
handle_returning_user_choice(u, data) ==
    /\ hpc = "idle"
    /\ conv[u] = START
    /\ data \in {"guide_video", "samples"}
    /\ Handled(u, Prologue(u), START, kb[u], NoEv)

\* A press of an edit-menu button in a state other than CONFIRM_ORDER: no
\* handler of the state has a pattern for "edit_" data, the fallback is a
\* command handler, and no other handler of the application takes the data.
\* The update is dropped and the menu keeps its buttons.
Unrouted(u, data) ==
    /\ hpc = "idle"
    /\ conv[u] # CONFIRM_ORDER
    /\ data \in EditJumps
    /\ kb[u]["menu"] > 0
    /\ ev' = Ev("unrouted", 0, data)
    /\ UNCHANGED << user_sessions, session_keys, orders, channel, conv, retry_conv,
                    hpc, hctx, poll_pc, poll_snap, poll_msg, sent_for, kb, store, focus,
                    resolver >>

collect_personal_info(u, text) ==
    /\ hpc = "idle"
    /\ conv[u] = COLLECT_PERSONAL_INFO
    /\ LET s == Prologue(u)
           current_field == s.current_field
       IN  CASE current_field = "firstName" ->
                    Handled(u, SetField(s, "candidate_data", "firstName", text, "middleName"),
                            COLLECT_PERSONAL_INFO, kb[u], Typed)
             [] current_field = "middleName" ->
                    Handled(u, SetField(s, "candidate_data", "middleName", text, "lastName"),
                            COLLECT_PERSONAL_INFO, kb[u], Typed)
             [] current_field = "lastName" ->
                    Handled(u, SetField(s, "candidate_data", "lastName", text, "phoneNumber"),
                            COLLECT_CONTACT_INFO, kb[u], Typed)
             [] OTHER -> Handled(u, s, COLLECT_PERSONAL_INFO, kb[u], Typed)

collect_contact_info(u, text) ==
    /\ hpc = "idle"
    /\ conv[u] = COLLECT_CONTACT_INFO
    /\ LET s == Prologue(u)
           current_field == s.current_field
       IN  CASE current_field = "phoneNumber" ->
                    Handled(u, SetField(s, "candidate_data", "phoneNumber", text, "emailAddress"),
                            COLLECT_CONTACT_INFO, kb[u], Typed)
             [] current_field = "emailAddress" ->
                    Handled(u, SetField(s, "candidate_data", "emailAddress", text, "linkedinProfile"),
                            COLLECT_CONTACT_INFO, kb[u], Typed)
             [] current_field = "linkedinProfile" ->
                    Handled(u, SetField(s, "candidate_data", "linkedinProfile", Optional(text), "city"),
                            COLLECT_CONTACT_INFO, kb[u], Skipped(text, "linkedinProfile"))
             [] current_field = "city" ->
                    Handled(u, SetField(s, "candidate_data", "city", text, "country"),
                            COLLECT_CONTACT_INFO, kb[u], Typed)
             [] current_field = "country" ->
                    Handled(u, SetField(s, "candidate_data", "country", text, ""),
                            COLLECT_PROFILE_IMAGE, kb[u], Typed)
             [] OTHER -> Handled(u, s, COLLECT_CONTACT_INFO, kb[u], Typed)

\* The limits of collect_profile_image
max_size == 5 * 1024 * 1024

allowed_mime_types == {"image/jpeg", "image/png", "application/pdf"}

allowed_extensions == {"jpg", "jpeg", "png", "pdf"}

\* What the party sends at COLLECT_PROFILE_IMAGE.  A text: the skip sentinel,
\* another text, or a command (the state's filter takes every text).  A photo
\* or a document that passes the filter (an image or a PDF), of a size at or
\* over the ceiling; ext is what file_name.split('.')[-1].lower() gives, ""
\* for a document without a file name; sends tells whether the calls the
\* handler makes for the upload (get_file, the forwarding to the
\* administrative channel) go through.
ImageUploads ==
    [kind : {"text"}, text : {"skip", "Skip", "text", "/cancel"}, size : {0},
     mime : {""}, ext : {""}, sends : {TRUE}]
    \cup [kind : {"photo"}, text : {""}, size : {max_size, max_size + 1},
          mime : {""}, ext : {""}, sends : BOOLEAN]
    \cup [kind : {"document"}, text : {""}, size : {max_size, max_size + 1},
          mime : {"image/png", "image/gif"}, ext : {"png", "gif", ""}, sends : BOOLEAN]

SkipImage ==
    [kind |-> "text", text |-> "skip", size |-> 0, mime |-> "", ext |-> "", sends |-> TRUE]

\* file_size > max_size, with no size check at all
TooLargeNever(size) == FALSE

\* file_size > max_size
TooLarge(size) == size > max_size

\* the prompt collect_profile_image answers with
ImagePrompt(upload) ==
    IF upload.text # "" /\ Lower(upload.text) = "skip" THEN "profile_image_skip"
    ELSE IF upload.kind = "photo"
    THEN IF ~ upload.sends THEN "error_message"
         ELSE IF TooLarge(upload.size) THEN "file_too_large"
         ELSE "profile_image_success"
    ELSE IF upload.kind = "document"
    THEN IF TooLarge(upload.size) THEN "file_too_large"
         ELSE IF upload.mime \notin allowed_mime_types THEN "invalid_file_type"
         ELSE IF upload.ext # "" /\ upload.ext \notin allowed_extensions
         THEN "invalid_file_type"
         ELSE IF ~ upload.sends THEN "error_message"
         ELSE "profile_image_success"
    ELSE "invalid_file_type"

\* Every branch returns COLLECT_PROFILE_IMAGE.  A photo or a document that
\* passes the checks is forwarded, then its URL is stored, then the keyboard
\* with 'continue' is sent.
collect_profile_image(u, upload) ==
    /\ hpc = "idle"
    /\ conv[u] = COLLECT_PROFILE_IMAGE
    /\ upload \in ImageUploads
    /\ LET s == Prologue(u)
           prompt == ImagePrompt(upload)
       IN  /\ user_sessions' =
                (u :> IF prompt = "profile_image_success"
                      THEN [s EXCEPT !.candidate_data = Put(@, "profileImageUrl", "file_url")]
                      ELSE s) @@ user_sessions
           /\ channel' = IF prompt = "profile_image_success"
                         THEN channel \cup {Msg(u, 0)} ELSE channel
           /\ kb' = [kb EXCEPT ![u] =
                        IF prompt \in {"profile_image_skip", "profile_image_success"}
                        THEN Shown(@, COLLECT_PROFILE_IMAGE) ELSE @]
    /\ session_keys' = KeysWith(u)
    /\ conv' = [conv EXCEPT ![u] = COLLECT_PROFILE_IMAGE]
    /\ ev' = [Ev("image", 0, "") EXCEPT !.upload = upload]
    /\ UNCHANGED << orders, retry_conv, hpc, hctx, poll_pc, poll_snap, poll_msg,
                    sent_for, store, focus, resolver >>

handle_profile_image_choice(u) ==
    /\ hpc = "idle"
    /\ conv[u] = COLLECT_PROFILE_IMAGE
    /\ kb[u][COLLECT_PROFILE_IMAGE] > 0
    /\ Handled(u, [Prologue(u) EXCEPT !.current_field = "work_jobTitle",
                                      !.current_work_experience = Cleared(@)],
               COLLECT_PROFESSIONAL_INFO, Pressed(kb[u], COLLECT_PROFILE_IMAGE),
               Ev("continue_professional", 0, ""))

collect_professional_info(u, text) ==
    /\ hpc = "idle"
    /\ conv[u] = COLLECT_PROFESSIONAL_INFO
    /\ LET s == Prologue(u)
           current_field == s.current_field
       IN  CASE current_field = "work_jobTitle" ->
                    IF Lower(text) = "skip"
                    THEN Handled(u, [s EXCEPT !.workExperiences = << >>,
                                              !.current_field = "edu_degreeName",
                                              !.current_education = Cleared(@)],
                                 COLLECT_EDUCATION, kb[u], Typed)
                    ELSE Handled(u, SetField(s, "current_work_experience", "jobTitle", text,
                                             "work_companyName"),
                                 COLLECT_PROFESSIONAL_INFO, kb[u], Typed)
             [] current_field = "work_companyName" ->
                    Handled(u, SetField(s, "current_work_experience", "companyName", text,
                                        "work_location"),
                            COLLECT_PROFESSIONAL_INFO, kb[u], Typed)
             [] current_field = "work_location" ->
                    Handled(u, SetField(s, "current_work_experience", "location", text,
                                        "work_description"),
                            COLLECT_PROFESSIONAL_INFO, kb[u], Typed)
             [] current_field = "work_description" ->
                    /\ Room(s, "workExperiences")
                    /\ Handled(u, AppendDraft(SetField(s, "current_work_experience", "description",
                                                       text, current_field),
                                              "workExperiences", "current_work_experience"),
                               COLLECT_PROFESSIONAL_INFO,
                               Shown(kb[u], COLLECT_PROFESSIONAL_INFO), Typed)
             [] OTHER -> Handled(u, s, COLLECT_PROFESSIONAL_INFO, kb[u], Typed)

handle_professional_info_choice(u, data) ==
    /\ hpc = "idle"
    /\ conv[u] = COLLECT_PROFESSIONAL_INFO
    /\ kb[u][COLLECT_PROFESSIONAL_INFO] > 0
    /\ data \in {"add_another_work", "continue_education"}
    /\ LET s == Prologue(u) IN
       IF data = "add_another_work"
       THEN Handled(u, [s EXCEPT !.current_field = "work_jobTitle"],
                    COLLECT_PROFESSIONAL_INFO, Pressed(kb[u], COLLECT_PROFESSIONAL_INFO),
                    Ev(data, 0, ""))
       ELSE Handled(u, [s EXCEPT !.current_field = "edu_degreeName",
                                 !.current_education = Cleared(@),
                                 !.current_work_experience = Left(@)],
                    COLLECT_EDUCATION, Pressed(kb[u], COLLECT_PROFESSIONAL_INFO),
                    Ev(data, 0, ""))

collect_education(u, text) ==
    /\ hpc = "idle"
    /\ conv[u] = COLLECT_EDUCATION
    /\ LET s == Prologue(u)
           current_field == s.current_field
       IN  CASE current_field = "edu_degreeName" ->
                    Handled(u, SetField(s, "current_education", "degreeName", text,
                                        "edu_institutionName"),
                            COLLECT_EDUCATION, kb[u], Typed)
             [] current_field = "edu_institutionName" ->
                    Handled(u, SetField(s, "current_education", "institutionName", text,
                                        "edu_gpa"),
                            COLLECT_EDUCATION, kb[u], Typed)
             [] current_field = "edu_gpa" ->
                    Handled(u, SetField(s, "current_education", "gpa", Optional(text),
                                        "edu_description"),
                            COLLECT_EDUCATION, kb[u], Skipped(text, "gpa"))
             [] current_field = "edu_description" ->
                    Handled(u, SetField(s, "current_education", "description", text,
                                        "edu_achievementsHonors"),
                            COLLECT_EDUCATION, kb[u], Typed)
             [] current_field = "edu_achievementsHonors" ->
                    /\ Room(s, "education")
                    /\ Handled(u, AppendDraft(SetField(s, "current_education", "achievementsHonors",
                                                       Optional(text), current_field),
                                              "education", "current_education"),
                               COLLECT_EDUCATION, Shown(kb[u], COLLECT_EDUCATION),
                               Skipped(text, "achievementsHonors"))
             [] OTHER -> Handled(u, s, COLLECT_EDUCATION, kb[u], Typed)

handle_education_choice(u, data) ==
    /\ hpc = "idle"
    /\ conv[u] = COLLECT_EDUCATION
    /\ kb[u][COLLECT_EDUCATION] > 0
    /\ data \in {"add_another_edu", "continue_skills"}
    /\ LET s == Prologue(u) IN
       IF data = "add_another_edu"
       THEN Handled(u, [s EXCEPT !.current_field = "edu_degreeName"],
                    COLLECT_EDUCATION, Pressed(kb[u], COLLECT_EDUCATION), Ev(data, 0, ""))
       ELSE Handled(u, [s EXCEPT !.skills = << >>,
                                 !.current_education = Left(@)],
                    COLLECT_CAREER_OBJECTIVE, Pressed(kb[u], COLLECT_EDUCATION),
                    Ev(data, 0, ""))

collect_skills(u, text) ==
    /\ hpc = "idle"
    /\ conv[u] = COLLECT_SKILLS
    /\ LET s == Prologue(u)
           current_field == s.current_field
       IN  CASE current_field = "skill_skillName" ->
                    Handled(u, SetField(s, "current_skill", "skillName", text,
                                        "skill_proficiency"),
                            COLLECT_SKILLS, kb[u], Typed)
             [] current_field = "skill_proficiency" ->
                    /\ Room(s, "skills")
                    /\ Handled(u, AppendDraft(SetField(s, "current_skill", "proficiency", text,
                                                       current_field),
                                              "skills", "current_skill"),
                               COLLECT_SKILLS, Shown(kb[u], COLLECT_SKILLS), Typed)
             [] OTHER -> Handled(u, s, COLLECT_SKILLS, kb[u], Typed)

handle_skills_choice(u, data) ==
    /\ hpc = "idle"
    /\ conv[u] = COLLECT_SKILLS
    /\ kb[u][COLLECT_SKILLS] > 0
    /\ data \in {"add_another_skill", "continue_career"}
    /\ LET s == Prologue(u) IN
       IF data = "add_another_skill"
       THEN Handled(u, [s EXCEPT !.current_field = "skill_skillName"],
                    COLLECT_SKILLS, Pressed(kb[u], COLLECT_SKILLS), Ev(data, 0, ""))
       ELSE Handled(u, [s EXCEPT !.current_skill = Left(@)],
                    COLLECT_CAREER_OBJECTIVE, Pressed(kb[u], COLLECT_SKILLS), Ev(data, 0, ""))

collect_career_objective(u, text) ==
    /\ hpc = "idle"
    /\ conv[u] = COLLECT_CAREER_OBJECTIVE
    /\ LET s == Prologue(u)
           t == IF Lower(text) # "skip"
                THEN [s EXCEPT !.careerObjectives = Append(@, [summaryText |-> text])]
                ELSE s
       IN  /\ Lower(text) # "skip" => Room(s, "careerObjectives")
           /\ Handled(u, [t EXCEPT !.current_field = "cert_certificateName",
                                   !.current_certification = Cleared(@)],
                      COLLECT_CERTIFICATIONS, kb[u], Skipped(text, "summaryText"))

collect_certifications(u, text) ==
    /\ hpc = "idle"
    /\ conv[u] = COLLECT_CERTIFICATIONS
    /\ LET s == Prologue(u)
           current_field == s.current_field
       IN  CASE current_field = "cert_certificateName" ->
                    IF Lower(text) = "skip"
                    THEN Handled(u, s, COLLECT_CERTIFICATIONS,
                                 Shown(kb[u], COLLECT_CERTIFICATIONS), Typed)
                    ELSE Handled(u, SetField(s, "current_certification", "certificateName", text,
                                             "cert_issuer"),
                                 COLLECT_CERTIFICATIONS, kb[u], Typed)
             [] current_field = "cert_issuer" ->
                    /\ Room(s, "certificationsAwards")
                    /\ Handled(u, AppendDraft(SetField(s, "current_certification", "issuer", text,
                                                       current_field),
                                              "certificationsAwards", "current_certification"),
                               COLLECT_CERTIFICATIONS, Shown(kb[u], COLLECT_CERTIFICATIONS), Typed)
             [] OTHER -> Handled(u, s, COLLECT_CERTIFICATIONS, kb[u], Typed)

handle_certifications_choice(u, data) ==
    /\ hpc = "idle"
    /\ conv[u] = COLLECT_CERTIFICATIONS
    /\ kb[u][COLLECT_CERTIFICATIONS] > 0
    /\ data \in {"add_another_cert", "continue_projects"}
    /\ LET s == Prologue(u) IN
       IF data = "add_another_cert"
       THEN Handled(u, [s EXCEPT !.current_field = "cert_certificateName"],
                    COLLECT_CERTIFICATIONS, Pressed(kb[u], COLLECT_CERTIFICATIONS),
                    Ev(data, 0, ""))
       ELSE Handled(u, [s EXCEPT !.current_field = "project_projectTitle",
                                 !.current_project = Cleared(@),
                                 !.current_certification = Left(@)],
                    COLLECT_PROJECTS, Pressed(kb[u], COLLECT_CERTIFICATIONS), Ev(data, 0, ""))

collect_projects(u, text) ==
    /\ hpc = "idle"
    /\ conv[u] = COLLECT_PROJECTS
    /\ LET s == Prologue(u)
           current_field == s.current_field
       IN  CASE current_field = "project_projectTitle" ->
                    Handled(u, SetField(s, "current_project", "projectTitle", text,
                                        "project_description"),
                            COLLECT_PROJECTS, kb[u], Typed)
             [] current_field = "project_description" ->
                    Handled(u, SetField(s, "current_project", "description", text,
                                        "project_projectLink"),
                            COLLECT_PROJECTS, kb[u], Typed)
             [] current_field = "project_projectLink" ->
                    /\ Room(s, "projects")
                    /\ Handled(u, AppendDraft(IF Lower(text) # "skip"
                                              THEN SetField(s, "current_project", "projectLink",
                                                            text, current_field)
                                              ELSE s,
                                              "projects", "current_project"),
                               COLLECT_PROJECTS, Shown(kb[u], COLLECT_PROJECTS),
                               Skipped(text, "projectLink"))
             [] OTHER -> Handled(u, s, COLLECT_PROJECTS, kb[u], Typed)

handle_projects_choice(u, data) ==
    /\ hpc = "idle"
    /\ conv[u] = COLLECT_PROJECTS
    /\ kb[u][COLLECT_PROJECTS] > 0
    /\ data \in {"add_another_project", "continue_languages"}
    /\ LET s == Prologue(u) IN
       IF data = "add_another_project"
       THEN Handled(u, [s EXCEPT !.current_field = "project_projectTitle"],
                    COLLECT_PROJECTS, Pressed(kb[u], COLLECT_PROJECTS), Ev(data, 0, ""))
       ELSE Handled(u, [s EXCEPT !.current_field = "lang_languageName",
                                 !.current_language = Cleared(@),
                                 !.current_project = Left(@)],
                    COLLECT_LANGUAGES, Pressed(kb[u], COLLECT_PROJECTS), Ev(data, 0, ""))

collect_languages(u, text) ==
    /\ hpc = "idle"
    /\ conv[u] = COLLECT_LANGUAGES
    /\ LET s == Prologue(u)
           current_field == s.current_field
       IN  CASE current_field = "lang_languageName" ->
                    Handled(u, SetField(s, "current_language", "languageName", text,
                                        "lang_proficiencyLevel"),
                            COLLECT_LANGUAGES, kb[u], Typed)
             [] current_field = "lang_proficiencyLevel" ->
                    /\ Room(s, "languages")
                    /\ Handled(u, AppendDraft(SetField(s, "current_language", "proficiencyLevel",
                                                       text, current_field),
                                              "languages", "current_language"),
                               COLLECT_LANGUAGES, Shown(kb[u], COLLECT_LANGUAGES), Typed)
             [] OTHER -> Handled(u, s, COLLECT_LANGUAGES, kb[u], Typed)

handle_languages_choice(u, data) ==
    /\ hpc = "idle"
    /\ conv[u] = COLLECT_LANGUAGES
    /\ kb[u][COLLECT_LANGUAGES] > 0
    /\ data \in {"add_another_language", "continue_activities"}
    /\ LET s == Prologue(u) IN
       IF data = "add_another_language"
       THEN Handled(u, [s EXCEPT !.current_field = "lang_languageName"],
                    COLLECT_LANGUAGES, Pressed(kb[u], COLLECT_LANGUAGES), Ev(data, 0, ""))
       ELSE Handled(u, [s EXCEPT !.current_language = Left(@)],
                    COLLECT_ACTIVITIES, Pressed(kb[u], COLLECT_LANGUAGES), Ev(data, 0, ""))

collect_activities(u, text) ==
    /\ hpc = "idle"
    /\ conv[u] = COLLECT_ACTIVITIES
    /\ LET s == Prologue(u) IN
       /\ Lower(text) # "skip" => Room(s, "otherActivities")
       /\ Handled(u, [IF Lower(text) # "skip"
                      THEN [s EXCEPT !.otherActivities =
                                Append(@, [activityType |-> "Other", description |-> text])]
                      ELSE s
                      EXCEPT !.summary_message_id = "set"],
                  CONFIRM_ORDER, kb[u], Skipped(text, "otherActivities"))

\* ---------------------------------------------------------------- payment
\* the query without its telegramUserId filter
RejectedOrdersOfAll(u) ==
    {o \in 1 .. Len(orders) : orders[o].status = "rejected"}

\* get_rejected_order_for_user: the most recent rejected order of u, or None
\* (also None when the query raises)
RejectedOrders(u) ==
    {o \in 1 .. Len(orders) :
        orders[o].telegramUserId = u /\ orders[o].status = "rejected"}

MostRecent(S) == CHOOSE o \in S : \A p \in S : p <= o

get_rejected_order_for_user(u, queryOk) ==
    IF queryOk /\ RejectedOrders(u) # {} THEN MostRecent(RejectedOrders(u)) ELSE 0

\* /payment, the entry point of payment_retry_handler.  Conversations are kept
\* per chat and user; the command is sent in the private chat, or in a group
\* chat while there it starts no conversation (no rejected order).  With a
\* rejected order the stored candidate's to_dict() replaces candidate_data.
HandlePaymentCommand(u, chat, queryOk) ==
    /\ UNCHANGED wizard
    /\ hpc = "idle"
    /\ retry_conv[u] = END
    /\ chat = u \/ get_rejected_order_for_user(u, queryOk) = 0
    /\ LET rejected_order == get_rejected_order_for_user(u, queryOk)
           s == PrologueIn(u, chat)
       IN  IF rejected_order = 0
           THEN /\ user_sessions' = (u :> s) @@ user_sessions
                /\ ev' = NoEv
                /\ UNCHANGED retry_conv
           ELSE /\ user_sessions' = (u :> [s EXCEPT !.candidate_data =
                                                        IF store[u].exists
                                                        THEN store[u].candidate_data
                                                        ELSE @,
                                                    !.order_id = rejected_order,
                                                    !.notified = "false"])
                                      @@ user_sessions
                /\ ev' = NoEv
                /\ retry_conv' = [retry_conv EXCEPT ![u] = PAYMENT]
    /\ session_keys' = KeysWith(u)
    /\ UNCHANGED << orders, channel, conv, hpc, hctx, poll_pc, poll_snap, poll_msg,
                    sent_for >>

UploadOutcomes == {"refused", "forward_failed", "ok"}

\* candidate.to_dict() replaces candidate_data when it has no phone number
PhoneLoaded(s, c) ==
    IF "phoneNumber" \notin DOMAIN s.candidate_data /\ c.exists
    THEN [s EXCEPT !.candidate_data = c.candidate_data]
    ELSE s

\* handle_payment_screenshot, in the PAYMENT state of either conversation handler
HandlePaymentScreenshot(u, outcome) ==
    /\ UNCHANGED wizard
    /\ hpc = "idle"
    /\ conv[u] = PAYMENT \/ retry_conv[u] = PAYMENT
    /\ LET s == PhoneLoaded(Prologue(u), store[u])
           done == s.order_id # 0 /\ outcome = "ok"
       IN  /\ user_sessions' = (u :> s) @@ user_sessions
           /\ IF done
              THEN /\ channel' = channel \cup
                                   {Msg(u, s.order_id)}
                   /\ orders' = UpdateStatus(s.order_id, "pending_verification",
                                             "Payment screenshot submitted, awaiting admin verification")
                   /\ IF conv[u] = PAYMENT
                      THEN conv' = [conv EXCEPT ![u] = END] /\ UNCHANGED retry_conv
                      ELSE retry_conv' = [retry_conv EXCEPT ![u] = END] /\ UNCHANGED conv
                   /\ ev' = NoEv
              ELSE /\ UNCHANGED << channel, orders, conv, retry_conv >>
                   /\ ev' = NoEv
    /\ session_keys' = KeysWith(u)
    /\ UNCHANGED << hpc, hctx, poll_pc, poll_snap, poll_msg, sent_for >>

\* ---------------------------------------------------------------- admin
KindOf(action) == IF action = "approve" THEN "verified" ELSE "rejected"

Decide(o, action, reason) ==
    IF action = "approve" THEN ApprovePayment(o) ELSE RejectPayment(o, reason)

\* handle_admin_response sends after approve_payment / reject_payment returned;
\* when they raise, control goes to the except branch
ButtonSendsAlways(decided) == TRUE

ButtonSends(decided) == decided

\* handle_admin_reply sends after the transition, if notified is not yet set
ReplySendsUnpersisted(decided, s) == ~ NotifiedGet(s)

ReplySends(decided, s) == decided /\ ~ NotifiedGet(s)

\* session['notified'] = True is reached only when the awaited send returned
NotifiedAlwaysSet(ok, old) == "true"

NotifiedAfterSend(ok, old) == IF ok THEN "true" ELSE old

\* The callback data of a button: "decision_ownerId_orderId".  parts is the
\* number of pieces query.data.split('_', 2) yields; the handler's pattern
\* "^(approve_|reject_)" makes the first piece a decision.
Token(m, action) == [action |-> action, uid |-> m.uid, oid |-> m.oid, parts |-> 3]

\* the tokens of the buttons under the evidence messages
EvidenceTokens == {Token(m, a) : m \in channel, a \in Decisions}

\* data the bot did not put on a button of a stored order: too few pieces, or
\* an order id that Order.get_by_id does not find, with the id of a user or of
\* somebody (3) who never talked to the bot
StrayTokens ==
    {[action |-> a, uid |-> u, oid |-> 0, parts |-> 3] :
        a \in Decisions, u \in Users \cup {3}}
    \cup {[action |-> a, uid |-> 0, oid |-> 0, parts |-> 2] : a \in Decisions}

ButtonTokens == EvidenceTokens \cup StrayTokens

\* callback data is whatever the client sends for a message that carries a
\* keyboard: the id of a stored order with the id of a user who is not the
\* one on the button
ForgedTokens ==
    {token \in [action : Decisions, uid : Users, oid : {m.oid : m \in channel}, parts : {3}] :
        Msg(token.uid, token.oid) \notin channel}

\* handle_admin_response up to its send: a press of a button carrying token
AdminResponse(token) ==
    /\ UNCHANGED wizard
    /\ hpc = "idle"
    /\ token \in ButtonTokens \cup ForgedTokens
    /\ IF token.parts # 3
       THEN \* ValueError of the unpacking: the caption is edited, nothing else
            /\ ev' = Ev("stray_button", 0, "ignored")
            /\ UNCHANGED << user_sessions, session_keys, orders, sent_for, hpc, hctx >>
       ELSE
       LET sess == SessionsWith(token.uid)
           s == sess[token.uid]
           o == token.oid
           action == token.action
           reason == "No reason provided"
           found == o \in DOMAIN orders
           decided == found /\ CanDecide(o)
       IN  /\ user_sessions' = sess
           /\ session_keys' = KeysWith(token.uid)
           /\ IF s.chat_id = 0
              THEN /\ ev' = IF found THEN Ev("button", o, "no_session")
                           ELSE Ev("stray_button", 0, "ignored")
                   /\ UNCHANGED << orders, sent_for, hpc, hctx >>
              ELSE IF ~ found
              THEN /\ ev' = Ev("stray_button", 0, "ignored")
                   /\ UNCHANGED << orders, sent_for, hpc, hctx >>
              ELSE /\ orders' = IF decided THEN Decide(o, action, reason) ELSE orders
                   /\ sent_for' = IF decided THEN [sent_for EXCEPT ![o] = 0] ELSE sent_for
                   /\ IF ButtonSends(decided)
                      THEN /\ hpc' = "btn_send"
                           /\ hctx' = [uid |-> token.uid,
                                       note |-> Note(o, KindOf(action),
                                                     IF action = "reject" THEN reason ELSE "",
                                                     s.chat_id)]
                           /\ ev' = Ev("button", o, "sending")
                      ELSE /\ ev' = Ev("button", o, "invalid")
                           /\ UNCHANGED << hpc, hctx >>
    /\ UNCHANGED << channel, conv, retry_conv, poll_pc, poll_snap, poll_msg >>

\* the send of handle_admin_response returns or raises
AdminResponseSent(ok) ==
    /\ UNCHANGED wizard
    /\ hpc = "btn_send"
    /\ IF ok
       THEN /\ sent_for' = [sent_for EXCEPT ![hctx.note.oid] = Inc(@)]
            /\ hpc' = "btn_edit"
            /\ ev' = NoEv
            /\ UNCHANGED hctx
       ELSE /\ hpc' = "idle"
            /\ hctx' = NoCtx
            /\ ev' = Ev("button_sent", hctx.note.oid, "send_failed")
            /\ UNCHANGED sent_for
    /\ UNCHANGED << user_sessions, session_keys, orders, channel, conv, retry_conv,
                    poll_pc, poll_snap, poll_msg >>

\* the caption edit after a successful send returns (then notified is set) or raises
AdminResponseEdited(ok) ==
    /\ UNCHANGED wizard
    /\ hpc = "btn_edit"
    /\ user_sessions' = IF ok
                        THEN [user_sessions EXCEPT ![hctx.uid].notified = "true"]
                        ELSE user_sessions
    /\ ev' = NoEv
    /\ hpc' = "idle"
    /\ hctx' = NoCtx
    /\ UNCHANGED << session_keys, orders, channel, conv, retry_conv, poll_pc,
                    poll_snap, poll_msg, sent_for >>

\* The text of an admin reply: its leading characters (prefix) and everything
\* after them (tail).
Text(prefix, tail) == [prefix |-> prefix, tail |-> tail]

ReplyTexts ==
    {Text("approve", ""), Text("Approve", ""), Text("approve", " now"),
     Text("reject:", ""), Text("reject:", " blurry receipt"),
     Text("Reject:", " Blurry Receipt"), Text("ok", "")}

\* reply_text = update.message.text.lower()
LowerText(text) == [prefix |-> Lower(text.prefix), tail |-> Lower(text.tail)]

\* reply_text.startswith('approve') or reply_text.startswith('reject:')
PassesFilter(reply_text) == reply_text.prefix \in {"approve", "reject:"}

\* the branch taken: reply_text == 'approve', reply_text.startswith('reject:'), or neither
ReplyAction(reply_text) ==
    IF reply_text.prefix = "approve" /\ reply_text.tail = "" THEN "approve"
    ELSE IF reply_text.prefix = "reject:" THEN "reject"
    ELSE "none"

\* reply_text[7:].strip() or 'No reason provided'
ReplyReason(reply_text) ==
    IF Strip(reply_text.tail) = "" THEN "No reason provided" ELSE Strip(reply_text.tail)

\* The message an admin reply answers, as far as the handler looks at it: what
\* its caption is and the order id a caption's "Order ID: " field carries (0:
\* none, or one that is in no order record).
Target(m) == [caption |-> "evidence", oid |-> m.oid]

\* no replied-to message, one without caption, a payment caption without the
\* field, an evidence caption of an unknown order, and a caption of another
\* kind that mentions an order
StrayTargets ==
    {[caption |-> c, oid |-> 0] : c \in {"none", "no_caption", "no_field", "evidence"}}
    \cup {[caption |-> "other", oid |-> o] : o \in 1 .. Len(orders)}

ReplyTargets == {Target(m) : m \in channel} \cup StrayTargets

\* the plain decisions: "approve", "reject:" and "reject: blurry receipt" in
\* reply to an evidence message
CoreReplies ==
    {[target |-> Target(m), text |-> t] :
        m \in channel,
        t \in {Text("approve", ""), Text("reject:", ""),
                Text("reject:", " blurry receipt")}}

\* all replies drawn: any text to an evidence message, a text that passes the
\* filter to any other target
Replies ==
    {[target |-> Target(m), text |-> t] : m \in channel, t \in ReplyTexts}
    \cup {[target |-> t, text |-> x] :
             t \in StrayTargets,
             x \in {Text("approve", ""), Text("reject:", " blurry receipt")}}

\* ev.op of a reply step: whether the reply was to a stored order's evidence
ReplyOp(target) == IF target \in StrayTargets THEN "stray_reply" ELSE "reply"

ReplyEv(target, text, oid, res) ==
    [op |-> ReplyOp(target), oid |-> oid, res |-> res, left |-> {}, txt |-> text,
     upload |-> NoUpload]

\* lines 1773-1792: the order the reply is about, 0 when the handler returns
\* before it has one
ReplyOrderAnyCaption(target) == target.oid

ReplyOrder(target) ==
    IF target.caption = "evidence" /\ target.oid \in DOMAIN orders THEN target.oid ELSE 0

\* handle_admin_reply up to its send: a reply with the given text to target
AdminReply(target, text) ==
    /\ UNCHANGED wizard
    /\ hpc = "idle"
    /\ [target |-> target, text |-> text] \in Replies
    /\ LET reply_text == LowerText(text)
           o == ReplyOrder(target)
       IN
       IF ~ PassesFilter(reply_text)
       THEN /\ ev' = NoEv
            /\ UNCHANGED << user_sessions, session_keys, orders, sent_for, hpc, hctx >>
       ELSE IF o = 0
       THEN /\ ev' = ReplyEv(target, NoText, 0, "ignored")
            /\ UNCHANGED << user_sessions, session_keys, orders, sent_for, hpc, hctx >>
       ELSE
       LET telegram_id == orders[o].telegramUserId
           sess == SessionsWith(telegram_id)
           s == sess[telegram_id]
           action == ReplyAction(reply_text)
           reason == ReplyReason(reply_text)
           decided == CanDecide(o)
       IN  /\ user_sessions' = sess
           /\ session_keys' = KeysWith(telegram_id)
           /\ IF s.chat_id = 0
              THEN /\ ev' = ReplyEv(target, text, o, "no_session")
                   /\ UNCHANGED << orders, sent_for, hpc, hctx >>
              ELSE IF action = "none"
              THEN /\ ev' = ReplyEv(target, text, o, "unmatched")
                   /\ UNCHANGED << orders, sent_for, hpc, hctx >>
              ELSE /\ orders' = IF decided THEN Decide(o, action, reason) ELSE orders
                   /\ sent_for' = IF decided THEN [sent_for EXCEPT ![o] = 0] ELSE sent_for
                   /\ IF ReplySends(decided, s)
                      THEN /\ hpc' = "reply_send"
                           /\ hctx' = [uid |-> telegram_id,
                                       note |-> Note(o, KindOf(action),
                                                     IF action = "reject" THEN reason ELSE "",
                                                     s.chat_id)]
                           /\ ev' = ReplyEv(target, text, o, "sending")
                      ELSE /\ ev' = ReplyEv(target, text, o,
                                           IF decided THEN "no_send" ELSE "invalid")
                           /\ UNCHANGED << hpc, hctx >>
    /\ UNCHANGED << channel, conv, retry_conv, poll_pc, poll_snap, poll_msg >>

\* the send of handle_admin_reply returns or raises
AdminReplySent(ok) ==
    /\ UNCHANGED wizard
    /\ hpc = "reply_send"
    /\ user_sessions' = [user_sessions EXCEPT
                           ![hctx.uid].notified = NotifiedAfterSend(ok, @)]
    /\ sent_for' = IF ok THEN [sent_for EXCEPT ![hctx.note.oid] = Inc(@)] ELSE sent_for
    /\ hpc' = "idle"
    /\ hctx' = NoCtx
    /\ ev' = IF ok THEN NoEv ELSE Ev("reply_sent", hctx.note.oid, "send_failed")
    /\ UNCHANGED << session_keys, orders, channel, conv, retry_conv, poll_pc,
                    poll_snap, poll_msg >>

\* ---------------------------------------------------------------- poller
SnapEntry(u) == [id |-> u, live |-> TRUE, s |-> DefaultSession]

\* the dict a snapshot entry refers to
SnapSession(e) == IF e.live THEN user_sessions[e.id] ELSE e.s

\* lines 256-263: the session has order_id and chat_id, its order is in a
\* terminal state and notified is not set (orders are never deleted, so the
\* order is always found)
Due(s) ==
    /\ s.order_id # 0 /\ s.chat_id # 0
    /\ orders[s.order_id].status \in Terminal
    /\ ~ NotifiedGet(s)

DueIds(snap) == {snap[i].id : i \in {j \in DOMAIN snap : Due(SnapSession(snap[j]))}}

\* The except clause is inside the while loop: after it the poller is at the
\* sleep that precedes the next tick
AfterTickFailureStops == "stopped"

AfterTickFailure == "sleep"

\* The await-free stretch of the for loop over snap: it ends at the first send
\* (pc "send", snap from the session being served), at the end of the list, or
\* at an exception of Order.get_by_id for session failId, which leaves the loop.
RECURSIVE Scan(_, _)
Scan(snap, failId) ==
    IF snap = << >>
    THEN [pc |-> "sleep", snap |-> << >>, res |-> "", left |-> {}]
    ELSE LET e == Head(snap)
             s == SnapSession(e)
         IN  IF s.order_id = 0 \/ s.chat_id = 0
             THEN Scan(Tail(snap), failId)
             ELSE IF e.id = failId
             THEN [pc |-> AfterTickFailure, snap |-> << >>, res |-> "fetch_failed",
                   left |-> DueIds(Tail(snap))]
             ELSE IF Due(s)
             THEN [pc |-> "send", snap |-> snap, res |-> "", left |-> {}]
             ELSE Scan(Tail(snap), failId)

\* Every due order announced as verified.
PollNoteVerified(r) ==
    IF r.pc = "send"
    THEN LET s == SnapSession(Head(r.snap))
         IN  Note(s.order_id, "verified", "", s.chat_id)
    ELSE NoNote

\* the message of lines 264-276, made from the order just read
PollNote(r) ==
    IF r.pc = "send"
    THEN LET s == SnapSession(Head(r.snap))
             o == orders[s.order_id]
         IN  Note(s.order_id, o.status,
                  IF o.status = "rejected"
                  THEN (IF o.statusDetails = "" THEN "No reason provided"
                        ELSE o.statusDetails)
                  ELSE "",
                  s.chat_id)
    ELSE NoNote

PollEv(r) ==
    IF r.res = "" THEN NoEv
    ELSE [op |-> "tick", oid |-> 0, res |-> r.res, left |-> r.left, txt |-> NoText,
          upload |-> NoUpload]

\* a tick of poll_order_status_changes, from the wake-up to its first await
PollTick(failId) ==
    /\ UNCHANGED wizard
    /\ poll_pc = "sleep"
    /\ LET r == Scan([i \in 1 .. Len(session_keys) |-> SnapEntry(session_keys[i])],
                     failId)
       IN  /\ poll_pc' = r.pc
           /\ poll_snap' = r.snap
           /\ poll_msg' = PollNote(r)
           /\ ev' = PollEv(r)
    /\ UNCHANGED << user_sessions, session_keys, orders, channel, conv, retry_conv,
                    hpc, hctx, sent_for >>

\* the poller's send returns (notified is set on the dict of the snapshot and
\* the loop goes on) or raises (the except clause outside the loop ends the tick)
PollSent(ok, failId) ==
    /\ UNCHANGED wizard
    /\ poll_pc = "send"
    /\ LET e == Head(poll_snap) IN
       IF ok
       THEN LET r == Scan(Tail(poll_snap), failId) IN
            /\ user_sessions' = IF e.live
                                THEN [user_sessions EXCEPT ![e.id].notified = "true"]
                                ELSE user_sessions
            /\ sent_for' = [sent_for EXCEPT ![poll_msg.oid] = Inc(@)]
            /\ poll_pc' = r.pc
            /\ poll_snap' = r.snap
            /\ poll_msg' = PollNote(r)
            /\ ev' = PollEv(r)
       ELSE /\ poll_pc' = AfterTickFailure
            /\ poll_snap' = << >>
            /\ poll_msg' = NoNote
            /\ ev' = [op |-> "tick", oid |-> poll_msg.oid, res |-> "send_failed",
                      left |-> DueIds(Tail(poll_snap)), txt |-> NoText,
                      upload |-> NoUpload]
            /\ UNCHANGED << user_sessions, sent_for >>
    /\ UNCHANGED << session_keys, orders, channel, conv, retry_conv, hpc, hctx >>

Next ==
    \/ \E u \in Parties : Start(u)
    \/ \E u \in Parties : CollectProfile(u)
    \/ \E u \in Parties : ConfirmOrder(u, TRUE, TRUE)
    \/ \E u \in Parties : EditInfo(u, "edit_no")
    \/ \E u \in Parties : Cancel(u)
    \/ \E u \in Parties, queryOk \in BOOLEAN : HandlePaymentCommand(u, u, queryOk)
    \/ \E u \in Parties, outcome \in UploadOutcomes : HandlePaymentScreenshot(u, outcome)
    \/ \E token \in EvidenceTokens : AdminResponse(token)
    \/ \E ok \in BOOLEAN : AdminResponseSent(ok)
    \/ \E ok \in BOOLEAN : AdminResponseEdited(ok)
    \/ \E r \in CoreReplies : AdminReply(r.target, r.text)
    \/ \E ok \in BOOLEAN : AdminReplySent(ok)
    \/ \E failId \in Users \cup {0} : PollTick(failId)
    \/ \E ok \in BOOLEAN, failId \in Users \cup {0} : PollSent(ok, failId)

Spec == Init /\ [][Next]_vars

\* The poller's loop never ends and every started send returns or raises; the
\* sends are taken to succeed eventually and the order fetches not to fail forever.
Fairness ==
    /\ WF_vars(PollTick(0))
    /\ SF_vars(\E failId \in Users \cup {0} : PollSent(TRUE, failId))
    /\ SF_vars(AdminResponseSent(TRUE))
    /\ WF_vars(\E ok \in BOOLEAN : AdminResponseEdited(ok))
    /\ SF_vars(AdminReplySent(TRUE))

FairSpec == Init /\ [][Next]_vars /\ Fairness

\* ---------------------------------------------------------------- two parties
\* Both users have completed the wizard and uploaded payment evidence, and the
\* administrator may already have decided an order whose notification failed.
\* The administrative channel's input is drawn in full here: replies of every
\* wording to every kind of message, and presses with stray callback data.
OpenStatuses == {"pending_verification", "verified", "rejected"}

PollInit ==
    /\ \E st \in [Users -> OpenStatuses] :
          orders = [o \in 1 .. 2 |->
                      [telegramUserId |-> o, status |-> st[o],
                       statusDetails |-> IF st[o] = "rejected" THEN "No reason provided"
                                         ELSE IF st[o] = "verified" THEN ""
                                         ELSE "Payment screenshot submitted, awaiting admin verification"]]
    /\ user_sessions = [u \in Users |->
                            [PlainRun(DefaultSession) EXCEPT !.chat_id = u, !.order_id = u,
                                                             !.notified = "false",
                                                             !.summary_message_id = "absent"]]
    /\ session_keys \in {<< 1, 2 >>, << 2, 1 >>}
    /\ channel = {Msg(u, u) : u \in Users}
    /\ conv = [u \in Users |-> END]
    /\ retry_conv = [u \in Users |-> END]
    /\ hpc = "idle"
    /\ hctx = NoCtx
    /\ poll_pc = "sleep"
    /\ poll_snap = << >>
    /\ poll_msg = NoNote
    /\ sent_for = << 0, 0 >>
    /\ ev = NoEv
    /\ kb = [u \in Users |-> NoKeyboards]
    /\ store = [u \in Users |-> Saved(PlainRun(DefaultSession), NoCandidate)]
    /\ focus = NoFocus
    /\ resolver = NoResolver

PollNext ==
    \/ \E token \in ButtonTokens : AdminResponse(token)
    \/ \E ok \in BOOLEAN : AdminResponseSent(ok)
    \/ \E ok \in BOOLEAN : AdminResponseEdited(ok)
    \/ \E r \in Replies : AdminReply(r.target, r.text)
    \/ \E ok \in BOOLEAN : AdminReplySent(ok)
    \/ \E failId \in Users \cup {0} : PollTick(failId)
    \/ \E ok \in BOOLEAN, failId \in Users \cup {0} : PollSent(ok, failId)

PollSpec == PollInit /\ [][PollNext]_vars

PollFairSpec == PollInit /\ [][PollNext]_vars /\ Fairness

\* the administrative channel with a member whose client sends callback data
\* of its own making
ForgedNext ==
    \/ \E token \in EvidenceTokens : AdminResponse(token)
    \/ \E token \in ForgedTokens : AdminResponse(token)
    \/ \E ok \in BOOLEAN : AdminResponseSent(ok)
    \/ \E ok \in BOOLEAN : AdminResponseEdited(ok)
    \/ \E r \in CoreReplies : AdminReply(r.target, r.text)
    \/ \E ok \in BOOLEAN : AdminReplySent(ok)
    \/ \E failId \in Users \cup {0} : PollTick(failId)
    \/ \E ok \in BOOLEAN, failId \in Users \cup {0} : PollSent(ok, failId)

ForgedSpec == PollInit /\ [][ForgedNext]_vars

\* ---------------------------------------------------------------- /payment after a restart
\* The sessions live in the process, the orders and candidates in the store:
\* the bot starts with no session and with the orders of earlier runs, decided
\* one way or the other, of either user.  A party sends /payment (in the
\* private chat, or in a group chat where it starts no conversation) and the
\* evidence; the administrator presses the buttons.
RetryInit ==
    /\ \E owner \in [1 .. StoredOrders -> Users], st \in [1 .. StoredOrders -> Terminal] :
          orders = [o \in 1 .. StoredOrders |->
                      [telegramUserId |-> owner[o], status |-> st[o],
                       statusDetails |-> IF st[o] = "rejected" THEN "No reason provided"
                                         ELSE ""]]
    /\ user_sessions = << >>
    /\ session_keys = << >>
    /\ channel = {}
    /\ conv = [u \in Users |-> END]
    /\ retry_conv = [u \in Users |-> END]
    /\ hpc = "idle"
    /\ hctx = NoCtx
    /\ poll_pc = "sleep"
    /\ poll_snap = << >>
    /\ poll_msg = NoNote
    /\ sent_for = [o \in 1 .. StoredOrders |-> 0]
    /\ ev = NoEv
    /\ kb = [u \in Users |-> NoKeyboards]
    /\ store = [u \in Users |-> Saved(PlainRun(DefaultSession), NoCandidate)]
    /\ focus = NoFocus
    /\ resolver = NoResolver

RetryNext ==
    \/ \E u \in Parties, chat \in {GroupChat}, queryOk \in BOOLEAN :
            HandlePaymentCommand(u, chat, queryOk)
    \/ \E u \in Parties, queryOk \in BOOLEAN : HandlePaymentCommand(u, u, queryOk)
    \/ \E u \in Parties : HandlePaymentScreenshot(u, "ok")
    \/ \E token \in EvidenceTokens : AdminResponse(token)
    \/ AdminResponseSent(TRUE)
    \/ AdminResponseEdited(TRUE)

RetrySpec == RetryInit /\ [][RetryNext]_vars

\* ---------------------------------------------------------------- the wizard in detail
\* One party goes through the wizard handler by handler.  In the states of
\* the focus, in the run of the focus, the party sends every event the state
\* accepts; everywhere else it answers plainly: a text for every field, 'skip' for the profile
\* image, 'continue' at every keyboard, the summary confirmed, no /cancel, no
\* command from a group chat.
ScalarStates ==
    {SELECT_LANGUAGE, START, COLLECT_PERSONAL_INFO, COLLECT_CONTACT_INFO,
     COLLECT_PROFILE_IMAGE, COLLECT_CAREER_OBJECTIVE, COLLECT_ACTIVITIES,
     CONFIRM_ORDER, PAYMENT}

Foci == RepeatedSections \cup {"scalars"}

FocusStates == IF focus.at = "scalars" THEN ScalarStates ELSE {focus.at}

\* the run the party is in: one more than the orders saved so far
Run == Len(orders) + 1

Focused(u) == conv[u] \in FocusStates /\ Run = focus.run

WizardInit ==
    /\ user_sessions = << >>
    /\ session_keys = << >>
    /\ orders = << >>
    /\ channel = {}
    /\ conv = [u \in Users |-> END]
    /\ retry_conv = [u \in Users |-> END]
    /\ hpc = "idle"
    /\ hctx = NoCtx
    /\ poll_pc = "sleep"
    /\ poll_snap = << >>
    /\ poll_msg = NoNote
    /\ sent_for = << >>
    /\ ev = NoEv
    /\ kb = [u \in Users |-> NoKeyboards]
    /\ store = [u \in Users |-> NoCandidate]
    /\ focus \in [at : Foci, run : {1, 2}]
    /\ resolver = NoResolver

\* the fields at which a handler compares the text with the skip sentinel
InspectedFields ==
    {"work_jobTitle", "linkedinProfile", "edu_gpa", "edu_achievementsHonors",
     "cert_certificateName", "project_projectLink"}

\* the texts the party types in its state
Texts(u) ==
    IF ~ Focused(u) THEN {"text"}
    ELSE IF conv[u] \in {COLLECT_CAREER_OBJECTIVE, COLLECT_ACTIVITIES} THEN Answers
    ELSE IF SessionsWith(u)[u].current_field \in InspectedFields THEN Answers
    ELSE {"text"}

\* outside the focus the party types only when no keyboard waits for a press
Types(u) ==
    IF Focused(u) THEN TRUE
    ELSE IF conv[u] \in Keyboards THEN kb[u][conv[u]] = 0
    ELSE TRUE

Uploads(u) == IF Focused(u) THEN ImageUploads ELSE {SkipImage}

Languages(u) == IF Focused(u) THEN {"en", "am"} ELSE {"en"}

\* the button the party presses on a keyboard of a repeated section
Choices(u, add_another, continue) ==
    IF Focused(u) THEN {add_another, continue} ELSE {continue}

\* the edit menu buttons that lead into the focus
FocusJumps == {data \in EditJumps : JumpState(data) \in FocusStates}

\* "update_profile" is on no keyboard of this bot; a party that has such a
\* button from elsewhere presses it in the run of the focus, while no edit
\* menu is open.  In the focus the party also types at the main menu.
MenuChoices(u) ==
    (IF Run = focus.run /\ kb[u]["menu"] = 0 THEN {"update_profile", "new_cv"}
     ELSE {"new_cv"})
    \cup (IF Focused(u) THEN {"text"} ELSE {})

\* whether a call to Telegram made by confirm_order goes through
Outcomes(u) == IF Focused(u) THEN BOOLEAN ELSE {TRUE}

\* the buttons the party presses at the summary
Edits(u) == IF Focused(u) THEN {"edit_no"} \cup FocusJumps ELSE FocusJumps

WizardNext ==
    \/ \E u \in Parties : Start(u)
    \/ \E u \in Parties : \E lang \in Languages(u) : select_language(u, lang)
    \/ \E u \in Parties : \E data \in MenuChoices(u) : start_collecting_info(u, data)
    \/ \E u \in Parties, data \in {"guide_video", "samples"} :
            Focused(u) /\ handle_returning_user_choice(u, data)
    \/ \E u \in Parties : \E data \in FocusJumps :
            conv[u] = START /\ Run = focus.run /\ Unrouted(u, data)
    \/ \E u \in Parties : \E text \in Texts(u) : Types(u) /\ collect_personal_info(u, text)
    \/ \E u \in Parties : \E text \in Texts(u) : Types(u) /\ collect_contact_info(u, text)
    \/ \E u \in Parties : \E upload \in Uploads(u) : Types(u) /\ collect_profile_image(u, upload)
    \/ \E u \in Parties : handle_profile_image_choice(u)
    \/ \E u \in Parties : \E text \in Texts(u) : Types(u) /\ collect_professional_info(u, text)
    \/ \E u \in Parties : \E data \in Choices(u, "add_another_work", "continue_education") :
            handle_professional_info_choice(u, data)
    \/ \E u \in Parties : \E text \in Texts(u) : Types(u) /\ collect_education(u, text)
    \/ \E u \in Parties : \E data \in Choices(u, "add_another_edu", "continue_skills") :
            handle_education_choice(u, data)
    \/ \E u \in Parties : \E text \in Texts(u) : Types(u) /\ collect_skills(u, text)
    \/ \E u \in Parties : \E data \in Choices(u, "add_another_skill", "continue_career") :
            handle_skills_choice(u, data)
    \/ \E u \in Parties : \E text \in Texts(u) : Types(u) /\ collect_career_objective(u, text)
    \/ \E u \in Parties : \E text \in Texts(u) : Types(u) /\ collect_certifications(u, text)
    \/ \E u \in Parties : \E data \in Choices(u, "add_another_cert", "continue_projects") :
            handle_certifications_choice(u, data)
    \/ \E u \in Parties : \E text \in Texts(u) : Types(u) /\ collect_projects(u, text)
    \/ \E u \in Parties : \E data \in Choices(u, "add_another_project", "continue_languages") :
            handle_projects_choice(u, data)
    \/ \E u \in Parties : \E text \in Texts(u) : Types(u) /\ collect_languages(u, text)
    \/ \E u \in Parties : \E data \in Choices(u, "add_another_language", "continue_activities") :
            handle_languages_choice(u, data)
    \/ \E u \in Parties : \E text \in Texts(u) : Types(u) /\ collect_activities(u, text)
    \/ \E u \in Parties : \E deleted \in Outcomes(u) : \E sent \in Outcomes(u) :
            ConfirmOrder(u, deleted, sent)
    \/ \E u \in Parties : \E data \in Edits(u) : EditInfo(u, data)
    \/ \E u \in Parties : Focused(u) /\ Cancel(u)
    \/ \E u \in Parties, outcome \in UploadOutcomes : HandlePaymentScreenshot(u, outcome)
    \/ \E u \in Parties, chat \in {GroupChat}, queryOk \in BOOLEAN :
            Focused(u) /\ HandlePaymentCommand(u, chat, queryOk)

WizardSpec == WizardInit /\ [][WizardNext]_vars

\* ---------------------------------------------------------------- one run from a fresh session
\* One party goes through the wizard once, from a state without sessions:
\* /start, English, a new profile, a text for every field of the personal and
\* contact sections except 'skip' for the LinkedIn profile, 'skip' for the
\* image, one work experience, 'continue'; in the sections after that a text
\* for every field and either button at a keyboard; the summary confirmed,
\* every call to Telegram going through.
Reply(u) ==
    IF SessionsWith(u)[u].current_field = "linkedinProfile" THEN "skip" ELSE "text"

\* add-another is pressed while the section has room for the item
Buttons(u, coll, add_another, continue) ==
    IF Room(SessionsWith(u)[u], coll) THEN {add_another, continue} ELSE {continue}

ScenarioNext ==
    \/ \E u \in Parties : user_sessions = << >> /\ Start(u)
    \/ \E u \in Parties : select_language(u, "en")
    \/ \E u \in Parties : start_collecting_info(u, "new_cv")
    \/ \E u \in Parties : collect_personal_info(u, Reply(u))
    \/ \E u \in Parties : collect_contact_info(u, Reply(u))
    \/ \E u \in Parties : Types(u) /\ collect_profile_image(u, SkipImage)
    \/ \E u \in Parties : handle_profile_image_choice(u)
    \/ \E u \in Parties : Types(u) /\ collect_professional_info(u, Reply(u))
    \/ \E u \in Parties : handle_professional_info_choice(u, "continue_education")
    \/ \E u \in Parties : Types(u) /\ collect_education(u, Reply(u))
    \/ \E u \in Parties :
         \E data \in Buttons(u, "education", "add_another_edu", "continue_skills") :
            handle_education_choice(u, data)
    \/ \E u \in Parties : Types(u) /\ collect_career_objective(u, Reply(u))
    \/ \E u \in Parties : Types(u) /\ collect_certifications(u, Reply(u))
    \/ \E u \in Parties :
         \E data \in Buttons(u, "certificationsAwards", "add_another_cert",
                             "continue_projects") :
            handle_certifications_choice(u, data)
    \/ \E u \in Parties : Types(u) /\ collect_projects(u, Reply(u))
    \/ \E u \in Parties :
         \E data \in Buttons(u, "projects", "add_another_project", "continue_languages") :
            handle_projects_choice(u, data)
    \/ \E u \in Parties : Types(u) /\ collect_languages(u, Reply(u))
    \/ \E u \in Parties :
         \E data \in Buttons(u, "languages", "add_another_language",
                             "continue_activities") :
            handle_languages_choice(u, data)
    \/ \E u \in Parties : Types(u) /\ collect_activities(u, Reply(u))
    \/ \E u \in Parties : ConfirmOrder(u, TRUE, TRUE)

ScenarioSpec == Init /\ [][ScenarioNext]_vars

\* ---------------------------------------------------------------- resolve_username_to_id
\* the variables of the bot besides the cache of handles
bot == << user_sessions, session_keys, orders, channel, conv, retry_conv,
          hpc, hctx, poll_pc, poll_snap, poll_msg, sent_for, ev, kb, store, focus >>

\* the handles resolve_username_to_id is called with
Usernames == {"@Abel", "abel", "@sara"}

\* username.replace('@', '')
Unprefixed(username) ==
    CASE username = "@Abel" -> "Abel"
      [] username = "@sara" -> "sara"
      [] OTHER -> username

\* The handle kept in the letter case it was given in.
CleanKept(username) == Unprefixed(username)

\* username.replace('@', '').lower()
clean_username(username) == Lower(Unprefixed(username))

\* the id of the user a handle belongs to; any other chat has a negative id
UserId(username) == IF clean_username(username) = "abel" THEN 1 ELSE 2

ChatTypes == {"private", "supergroup", "channel"}

ChatId(type, username) == IF type = "private" THEN UserId(username) ELSE -100

\* what get_chat does: it returns a chat of some type or raises
GetChatOutcomes == ChatTypes \cup {"BadRequest", "Exception"}

\* the administrators get_chat_administrators returns; "" is a user without a handle
Rosters ==
    LET Admins == {[username |-> "Abel", id |-> 1], [username |-> "", id |-> 3],
                   [username |-> "sara", id |-> 2]}
    IN  UNION {[1 .. n -> Admins] : n \in 0 .. 2}

\* one tier of a call: whether the function returned from it, the type of
\* the chat get_chat gave, and the exception the tier raised
Call(tier, returned, chat_type, error) ==
    [tier |-> tier, returned |-> returned, chat_type |-> chat_type, error |-> error]

\* self.user_cache[clean_username] = user_id; return user_id
Returned(tier, chat_type, user_id) ==
    [resolver EXCEPT !.user_cache = Put(@, clean_username(resolver.username), user_id),
                     !.calls = Append(@, Call(tier, TRUE, chat_type, "")),
                     !.user_id = user_id,
                     !.resolved = @ \cup {[username |-> resolver.username,
                                           user_id |-> user_id]},
                     !.pc = "idle"]

\* An exception of a tier ending the call.
PassedAborts(tier, chat_type, error, next) ==
    [resolver EXCEPT !.calls = Append(@, Call(tier, FALSE, chat_type, error)),
                     !.pc = IF error # "" THEN "idle" ELSE next,
                     !.raised = error # ""]

\* the tier found nothing or raised, and the exception was logged
Passed(tier, chat_type, error, next) ==
    [resolver EXCEPT !.calls = Append(@, Call(tier, FALSE, chat_type, error)), !.pc = next]

\* A chat of any type taken for the user.
IsPrivateAny(type) == TRUE

\* chat.type == 'private'
IsPrivate(type) == type = "private"

\* the call up to its first await: the look into the cache
Resolve(username) ==
    /\ resolver.pc = "idle"
    /\ LET clean == clean_username(username)
           hit == clean \in DOMAIN resolver.user_cache
       IN  resolver' = [resolver EXCEPT
                           !.username = username,
                           !.calls = << Call("cache", hit, "", "") >>,
                           !.user_id = IF hit THEN resolver.user_cache[clean] ELSE 0,
                           !.raised = FALSE,
                           !.pc = IF hit THEN "idle" ELSE "get_chat"]
    /\ UNCHANGED bot

GetChat(outcome) ==
    /\ resolver.pc = "get_chat"
    /\ resolver' =
         IF outcome \in ChatTypes
         THEN IF IsPrivate(outcome)
              THEN Returned("get_chat", outcome, ChatId(outcome, resolver.username))
              ELSE Passed("get_chat", outcome, "", "get_chat_administrators")
         ELSE Passed("get_chat", "", outcome, "get_chat_administrators")
    /\ UNCHANGED bot

GetChatAdministrators(raises, administrators) ==
    /\ resolver.pc = "get_chat_administrators"
    /\ LET found == {i \in 1 .. Len(administrators) :
                        IF administrators[i].username # ""
                        THEN Lower(administrators[i].username)
                                = clean_username(resolver.username)
                        ELSE FALSE}
           first == CHOOSE i \in found : \A j \in found : i <= j
       IN  resolver' =
             IF ~ raises /\ found # {}
             THEN Returned("get_chat_administrators", "", administrators[first].id)
             ELSE Passed("get_chat_administrators", "", IF raises THEN "Exception" ELSE "",
                         "get_chat_member")
    /\ UNCHANGED bot

\* get_chat_member returns a member, returns nothing, or raises; after it
\* nothing is left to try and ValueError is raised
GetChatMember(outcome) ==
    /\ resolver.pc = "get_chat_member"
    /\ resolver' =
         IF outcome = "member"
         THEN Returned("get_chat_member", "", UserId(resolver.username))
         ELSE [Passed("get_chat_member", "", IF outcome = "raises" THEN "Exception" ELSE "",
                      "idle") EXCEPT !.raised = TRUE]
    /\ UNCHANGED bot

\* cache_user_info: a user with a handle writes to the bot in a private chat
CacheUserInfo(username) ==
    /\ resolver' = [resolver EXCEPT !.user_cache = Put(@, Lower(username), UserId(username))]
    /\ UNCHANGED bot

ResolveNext ==
    \/ \E username \in Usernames : Resolve(username)
    \/ \E outcome \in GetChatOutcomes : GetChat(outcome)
    \/ \E raises \in BOOLEAN, administrators \in Rosters :
            GetChatAdministrators(raises, administrators)
    \/ \E outcome \in {"member", "none", "raises"} : GetChatMember(outcome)
    \/ \E username \in {"Abel", "sara"} : CacheUserInfo(username)

ResolveSpec == Init /\ [][ResolveNext]_vars

\* ---------------------------------------------------------------- TestBot (src/test_bot.py)
\* TestBot keeps the handles in two caches, context.bot_data['user_cache'] and
\* self.user_cache; administrators is the roster the last call was given.
TestNoResolver ==
    [user_cache |-> << >>, bot_cache |-> << >>, pc |-> "idle", username |-> "",
     calls |-> << >>, user_id |-> 0, raised |-> FALSE, administrators |-> << >>]

\* f"@{clean_username}"
full_username(clean) == IF clean = "abel" THEN "@abel" ELSE "@sara"

\* _update_caches(clean_username, user_id, context), then return user_id
update_caches(r, tier, chat_type, user_id) ==
    [r EXCEPT !.user_cache = Put(@, clean_username(r.username), user_id),
              !.bot_cache = Put(@, clean_username(r.username), user_id),
              !.calls = Append(@, Call(tier, TRUE, chat_type, "")),
              !.user_id = user_id,
              !.pc = "idle"]

\* _resolve_with_retry up to its first await: the two caches
TestResolve(username) ==
    /\ resolver.pc = "idle"
    /\ LET clean == clean_username(username)
           in_bot == clean \in DOMAIN resolver.bot_cache
           hit == in_bot \/ clean \in DOMAIN resolver.user_cache
       IN  resolver' = [resolver EXCEPT
                           !.username = username,
                           !.calls = << Call("cache", hit, "", "") >>,
                           !.user_id = IF in_bot THEN resolver.bot_cache[clean]
                                       ELSE IF hit THEN resolver.user_cache[clean]
                                       ELSE 0,
                           !.raised = FALSE,
                           !.administrators = << >>,
                           !.pc = IF hit THEN "idle" ELSE "get_chat"]
    /\ UNCHANGED bot

\* get_chat under wait_for: TimeoutError and BadRequest are caught, any other
\* exception leaves _resolve_with_retry and resolve_username_to_id
TestGetChat(outcome) ==
    /\ resolver.pc = "get_chat"
    /\ resolver' =
         IF outcome = "private"
         THEN update_caches(resolver, "get_chat", outcome, UserId(resolver.username))
         ELSE IF outcome \in ChatTypes
         THEN [resolver EXCEPT !.calls = Append(@, Call("get_chat", FALSE, outcome, "")),
                               !.pc = "get_chat_administrators"]
         ELSE IF outcome \in {"TimeoutError", "BadRequest"}
         THEN [resolver EXCEPT !.calls = Append(@, Call("get_chat", FALSE, "", outcome)),
                               !.pc = "get_chat_administrators"]
         ELSE [resolver EXCEPT !.calls = Append(@, Call("get_chat", FALSE, "", outcome)),
                               !.pc = "idle",
                               !.raised = TRUE]
    /\ UNCHANGED bot

\* the roster scan compares the administrator's handle with the handle that
\* has '@' put before it; when nothing is found None is returned and
\* resolve_username_to_id raises ValueError
TestGetChatAdministrators(raises, administrators) ==
    /\ resolver.pc = "get_chat_administrators"
    /\ LET wanted == Lower(full_username(clean_username(resolver.username)))
           found == {i \in 1 .. Len(administrators) :
                        IF administrators[i].username # ""
                        THEN Lower(administrators[i].username) = wanted
                        ELSE FALSE}
           first == CHOOSE i \in found : \A j \in found : i <= j
           r == [resolver EXCEPT !.administrators = IF raises THEN << >> ELSE administrators]
       IN  resolver' =
             IF ~ raises /\ found # {}
             THEN update_caches(r, "get_chat_administrators", "", administrators[first].id)
             ELSE [r EXCEPT !.calls = Append(@, Call("get_chat_administrators", FALSE, "",
                                                     IF raises THEN "Exception" ELSE "")),
                            !.pc = "idle",
                            !.raised = TRUE]
    /\ UNCHANGED bot

\* /register, /teststart and cache_user_info: a user with a handle writes to the bot
TestRegister(username) ==
    /\ resolver' = [resolver EXCEPT
                       !.user_cache = Put(@, Lower(username), UserId(username)),
                       !.bot_cache = Put(@, Lower(username), UserId(username))]
    /\ UNCHANGED bot

TestResolveInit ==
    /\ user_sessions = << >>
    /\ session_keys = << >>
    /\ orders = << >>
    /\ channel = {}
    /\ conv = [u \in Users |-> END]
    /\ retry_conv = [u \in Users |-> END]
    /\ hpc = "idle"
    /\ hctx = NoCtx
    /\ poll_pc = "sleep"
    /\ poll_snap = << >>
    /\ poll_msg = NoNote
    /\ sent_for = << >>
    /\ ev = NoEv
    /\ kb = [u \in Users |-> NoKeyboards]
    /\ store = [u \in Users |-> NoCandidate]
    /\ focus = NoFocus
    /\ resolver = TestNoResolver

TestResolveNext ==
    \/ \E username \in Usernames : TestResolve(username)
    \/ \E outcome \in ChatTypes \cup {"TimeoutError", "BadRequest", "Forbidden"} :
            TestGetChat(outcome)
    \/ \E raises \in BOOLEAN, administrators \in Rosters :
            TestGetChatAdministrators(raises, administrators)
    \/ \E username \in {"Abel", "sara"} : TestRegister(username)

TestResolveSpec == TestResolveInit /\ [][TestResolveNext]_vars

\* ---------------------------------------------------------------- properties
Attached(o) ==
    \E u \in DOMAIN user_sessions :
        user_sessions[u].order_id = o /\ user_sessions[u].chat_id # 0

IsTerminal(o) == o \in DOMAIN orders /\ orders[o].status \in Terminal

\* C1: for every order and every terminal status it reaches, at most one
\* notification of that transition is delivered to the submitter, whatever the
\* interleaving of poller ticks, admin replies and admin button presses.
AtMostOneDelivery == \A o \in DOMAIN sent_for : sent_for[o] <= 1

\* C2: the stretch "read notified, decide, send, set notified" is mutually
\* exclusive per session: the poller and the admin-reply handler are never both
\* inside it for the same order.
NotifyCriticalSection ==
    ~ (hpc = "reply_send" /\ poll_pc = "send" /\ poll_msg.oid = hctx.note.oid)

\* C3: once notified is true for a session, no step makes it false again unless
\* the step attaches a different, newly created order to the session.
NotifiedNeverReset ==
    [][\A u \in Users :
         (/\ u \in DOMAIN user_sessions /\ u \in DOMAIN user_sessions'
          /\ user_sessions[u].notified = "true"
          /\ user_sessions'[u].notified # "true")
         => (/\ user_sessions'[u].order_id # user_sessions[u].order_id
             /\ user_sessions'[u].order_id > Len(orders))]_vars

AwaitsNotice(o) == IsTerminal(o) /\ Attached(o)

NoticeSettled(o) == IF AwaitsNotice(o) THEN sent_for[o] >= 1 ELSE TRUE

\* C4: an order that is attached to a session and has reached verified or rejected
\* leads to a delivered notification of that transition, unless the session is
\* cancelled or reset or the order is attached no more (checked under FairSpec).
EventuallyNotified ==
    \A o \in 1 .. MaxOrders : AwaitsNotice(o) ~> NoticeSettled(o)

StatusMonotonic ==
    [][\A o \in DOMAIN orders :
         \/ orders'[o].status = orders[o].status
         \/ << orders[o].status, orders'[o].status >> \in
               {<< "awaiting_payment", "pending_verification" >>,
                << "pending_verification", "verified" >>,
                << "pending_verification", "rejected" >>}]_vars

\* C7: an approve or reject, by button or by reply, against an order that is
\* already verified or rejected is refused: status and statusReason stay as they
\* are and no notification send is started.
TerminalDecisionRefused ==
    [][(ev'.op \in {"button", "reply"} /\ IsTerminal(ev'.oid))
         => (/\ orders' = orders
             /\ hpc' = "idle"
             /\ ev'.res \in {"invalid", "no_session", "unmatched"})]_vars

\* C7 witness: after "reject: blurry receipt", a reply "approve" was refused
ApproveAfterRejectRefused ==
    /\ ev.op = "reply" /\ ev.res = "invalid"
    /\ orders[ev.oid].status = "rejected"
    /\ orders[ev.oid].statusDetails = "blurry receipt"

\* C8: while an admin handler is at its notification send, the transition it
\* announces is already in the order store.
PersistBeforeSend ==
    hpc \in {"btn_send", "reply_send"} =>
        /\ orders[hctx.note.oid].status = hctx.note.kind
        /\ hctx.note.kind = "rejected" =>
              orders[hctx.note.oid].statusDetails = hctx.note.reason

\* C8 witness: the button handler is suspended at its send for a rejected order
ButtonSendPending ==
    hpc = "btn_send" /\ hctx.note.kind = "rejected"

\* C9: an admin decision for an order awaiting verification commits the
\* transition even when the owner's session has no delivery channel.
DecisionCommitsWithoutChannel ==
    [][(ev'.op \in {"button", "reply"} /\ ev'.res # "unmatched" /\ CanDecide(ev'.oid))
         => orders'[ev'.oid].status \in Terminal]_vars

\* C10: a tick that hit a failure (order fetch or delivery) leaves no other
\* session of the tick with a terminal, un-notified order unattempted.
TickServesAllSessions ==
    (ev.op = "tick" /\ ev.res \in {"fetch_failed", "send_failed"}) => ev.left = {}

ApproveReplyApproves ==
    [][(/\ ev'.op = "reply" /\ Lower(ev'.txt.prefix) = "approve"
        /\ CanDecide(ev'.oid) /\ ev'.res # "no_session")
         => orders'[ev'.oid].status = "verified"]_vars

\* the reason an admin wrote after "reject:": trimmed, otherwise as written
GivenReason(text) ==
    IF Strip(text.tail) = "" THEN "No reason provided" ELSE Strip(text.tail)

\* C13: an admin reply beginning with "reject:" rejects the referenced order and
\* stores as reason exactly the trimmed text after "reject:" (the default reason
\* when it is empty); the notification it sends carries the same reason.
RejectReplyKeepsReason ==
    [][(/\ ev'.op = "reply" /\ Lower(ev'.txt.prefix) = "reject:"
        /\ CanDecide(ev'.oid) /\ ev'.res # "no_session")
         => (/\ orders'[ev'.oid].status = "rejected"
             /\ orders'[ev'.oid].statusDetails = GivenReason(ev'.txt)
             /\ hpc' = "reply_send" => hctx'.note.reason = GivenReason(ev'.txt))]_vars

\* C14: an admin reply from which no order can be recovered (no replied-to
\* message, no caption, a caption that is not a payment-evidence caption, no
\* "Order ID: " field, an unknown order) changes no order, no session and starts
\* no send.
StrayReplyChangesNothing ==
    [][ev'.op = "stray_reply"
         => (/\ orders' = orders
             /\ user_sessions' = user_sessions
             /\ sent_for' = sent_for
             /\ hpc' = hpc /\ hctx' = hctx)]_vars

\* C14 witness: such a reply has just been ignored while an order awaits verification
StrayReplyIgnored ==
    /\ ev.op = "stray_reply"
    /\ \E o \in DOMAIN orders : CanDecide(o)

\* C15: a button press whose data is not a well-formed token naming an existing
\* order changes no order's status, starts no send and leaves the session table
\* unchanged.
StrayTokenChangesNothing ==
    [][ev'.op = "stray_button"
         => (/\ orders' = orders
             /\ hpc' = hpc
             /\ user_sessions' = user_sessions)]_vars

\* the top-level states in the order of the wizard
WizardOrder ==
    << SELECT_LANGUAGE, START, COLLECT_PERSONAL_INFO, COLLECT_CONTACT_INFO,
       COLLECT_PROFILE_IMAGE, COLLECT_PROFESSIONAL_INFO, COLLECT_EDUCATION,
       COLLECT_SKILLS, COLLECT_CAREER_OBJECTIVE, COLLECT_CERTIFICATIONS,
       COLLECT_PROJECTS, COLLECT_LANGUAGES, COLLECT_ACTIVITIES, CONFIRM_ORDER,
       PAYMENT >>

WizardStates == {WizardOrder[i] : i \in DOMAIN WizardOrder}

Position(state) == CHOOSE i \in DOMAIN WizardOrder : WizardOrder[i] = state

\* C16: in a new-profile run the top-level states are entered in the order of
\* the wizard: a step that takes the party from one state to another, other
\* than an edit at the summary, enters the next state of the order; 'continue'
\* at the end of Education enters Skills.
StatesEnteredInOrder ==
    [][\A u \in Parties :
          (/\ conv[u] \in WizardStates
           /\ conv'[u] \in WizardStates
           /\ conv'[u] # conv[u]
           /\ ev'.op \notin EditJumps \cup {"edit_no"})
          => Position(conv'[u]) = Position(conv[u]) + 1]_vars

\* the profile a session has collected holds nothing for the attribute
Absent(s, attribute) ==
    CASE attribute = "linkedinProfile" ->
            \/ attribute \notin DOMAIN s.candidate_data
            \/ s.candidate_data[attribute] = "none"
      [] attribute = "gpa" ->
            \/ attribute \notin DOMAIN s.current_education
            \/ s.current_education[attribute] = "none"
      [] attribute = "achievementsHonors" ->
            LET item == s.education[Len(s.education)] IN
            attribute \notin DOMAIN item \/ item[attribute] = "none"
      [] attribute = "projectLink" ->
            LET item == s.projects[Len(s.projects)] IN
            attribute \notin DOMAIN item \/ item[attribute] = "none"
      [] attribute = "summaryText" -> s.careerObjectives = << >>
      [] attribute = "otherActivities" -> s.otherActivities = << >>

\* C17: after the party answers an optional field (contact link, GPA,
\* achievements, project link, career objective, other activities) with the
\* skip sentinel in any letter case, the collected profile holds nothing for
\* that attribute: no empty string, no placeholder, no value.
SkipLeavesAttributeAbsent ==
    [][\A u \in Parties :
          ev'.op = "skip" => Absent(user_sessions'[u], ev'.res)]_vars

\* the session key of the draft a button or an edit-menu jump belongs to
DraftOf(data) ==
    CASE data \in {"add_another_work", "edit_work"} -> "current_work_experience"
      [] data \in {"add_another_edu", "continue_education", "edit_education"} ->
            "current_education"
      [] data \in {"add_another_skill", "edit_skills"} -> "current_skill"
      [] data \in {"add_another_cert", "edit_certs"} -> "current_certification"
      [] data \in {"add_another_project", "continue_projects", "edit_projects"} ->
            "current_project"
      [] data \in {"add_another_language", "continue_languages", "edit_languages"} ->
            "current_language"

\* the first field of the section a button or an edit-menu jump leads to
FirstFieldOf(data) ==
    CASE data \in {"add_another_work", "edit_work"} -> "work_jobTitle"
      [] data \in {"add_another_edu", "edit_education"} -> "edu_degreeName"
      [] data \in {"add_another_skill", "edit_skills"} -> "skill_skillName"
      [] data \in {"add_another_cert", "edit_certs"} -> "cert_certificateName"
      [] data \in {"add_another_project", "edit_projects"} -> "project_projectTitle"
      [] data \in {"add_another_language", "edit_languages"} -> "lang_languageName"

\* the sequence an edit-menu jump into a repeated section is about
CollectionOf(data) ==
    CASE data = "edit_work" -> "workExperiences"
      [] data = "edit_education" -> "education"
      [] data = "edit_skills" -> "skills"
      [] data = "edit_certs" -> "certificationsAwards"
      [] data = "edit_projects" -> "projects"
      [] data = "edit_languages" -> "languages"

AddAnother ==
    {"add_another_work", "add_another_edu", "add_another_skill", "add_another_cert",
     "add_another_project", "add_another_language"}

\* C18: in every repeated section, choosing 'add another' puts the wizard at
\* the section's first field with an empty draft item, in any reachable state
\* in which the choice is accepted.
AddAnotherStartsEmptyItem ==
    [][\A u \in Parties :
          ev'.op \in AddAnother
          => (/\ user_sessions'[u].current_field = FirstFieldOf(ev'.op)
              /\ user_sessions'[u][DraftOf(ev'.op)] = EmptyDict)]_vars

\* the 'continue' buttons that lead into a repeated section
ContinueIntoSection == {"continue_education", "continue_projects", "continue_languages"}

\* no item of any sequence of a session holds a value of a draft left behind
NoStaleItem(s) ==
    \A coll \in Collections : \A i \in DOMAIN s[coll] : \A k \in DOMAIN s[coll][i] :
        s[coll][i][k] # "stale"

\* C19: whenever 'continue' takes the party out of a repeated section, the
\* draft item of the section it enters is empty, and no field of the draft it
\* left behind is appended to any sequence later.
ContinueCarriesNoStaleDraft ==
    /\ [][\A u \in Parties :
             ev'.op \in ContinueIntoSection
             => user_sessions'[u][DraftOf(ev'.op)] = EmptyDict]_vars
    /\ [](\A u \in DOMAIN user_sessions : NoStaleItem(user_sessions[u]))

\* 'continue' has just taken the party into Education while a started work
\* item was left behind in the draft
ContinuedPastStartedItem ==
    /\ ev.op = "continue_education"
    /\ \E u \in DOMAIN user_sessions :
          /\ conv[u] = COLLECT_EDUCATION
          /\ user_sessions[u].current_work_experience # EmptyDict
          /\ user_sessions[u].current_education = EmptyDict

SectionJumps ==
    {"edit_work", "edit_education", "edit_skills", "edit_certs", "edit_projects",
     "edit_languages"}

\* C20: an edit-menu jump into a repeated section empties the section's
\* sequence and its draft item before any new input.
EditJumpEmptiesSection ==
    [][\A u \in Parties :
          ev'.op \in SectionJumps
          => (/\ user_sessions'[u][CollectionOf(ev'.op)] = << >>
              /\ user_sessions'[u][DraftOf(ev'.op)] = EmptyDict)]_vars

\* the button of the edit menu pressed in the step that led to a state
MenuPress(e) ==
    IF e.op = "unrouted" THEN e.res ELSE IF e.op \in EditJumps THEN e.op ELSE ""

\* C21: a returning party that chooses 'update' is shown the edit menu, and
\* every section button of that menu, pressed in the state the party is then
\* in (the main menu), is accepted and takes the wizard into its section.
UpdateMenuLeadsIntoSections ==
    [][\A u \in Parties :
          /\ (ev'.op = "update_profile" /\ store[u].exists)
                => (conv'[u] = START /\ kb'[u]["menu"] > 0)
          /\ (conv[u] = START /\ MenuPress(ev') # "")
                => conv'[u] = JumpState(MenuPress(ev'))]_vars

\* the inputs ProfileImage accepts: the skip sentinel, a photo within the size
\* ceiling, a document within the size ceiling whose type is allowed
ImageAccepted(upload) ==
    \/ upload.kind = "text" /\ Lower(upload.text) = "skip"
    \/ upload.kind = "photo" /\ upload.size <= max_size
    \/ /\ upload.kind = "document"
       /\ upload.size <= max_size
       /\ upload.mime \in allowed_mime_types
       /\ upload.ext \in allowed_extensions \cup {""}

\* the image attribute of the profile a session has collected
ImageOf(s) ==
    IF "profileImageUrl" \in DOMAIN s.candidate_data
    THEN s.candidate_data["profileImageUrl"] ELSE "none"

\* C22: in ProfileImage an input that is neither a photo within the size
\* ceiling, nor a document within the ceiling of an allowed type, nor the skip
\* sentinel is rejected in place: the state stays ProfileImage, the image
\* attribute of the profile is unchanged, nothing is forwarded to the
\* administrative channel.
RejectedImageChangesNothing ==
    [][\A u \in Parties :
          (conv[u] = COLLECT_PROFILE_IMAGE /\ ev'.op = "image"
           /\ ~ ImageAccepted(ev'.upload))
          => (/\ conv'[u] = COLLECT_PROFILE_IMAGE
              /\ ImageOf(user_sessions'[u]) = ImageOf(user_sessions[u])
              /\ channel' = channel)]_vars

\* a photo over the ceiling, whose forwarding would have gone through, has
\* just been rejected while nothing has been forwarded yet
OversizedPhotoRejected ==
    \E u \in Parties :
        /\ conv[u] = COLLECT_PROFILE_IMAGE
        /\ ev.op = "image"
        /\ ev.upload.kind = "photo"
        /\ ev.upload.size > max_size
        /\ ev.upload.sends
        /\ channel = {}
        /\ ImageOf(user_sessions[u]) = "none"

\* the stored profile holds what the session had collected
Persisted(c, s) ==
    /\ c.exists
    /\ \A k \in DOMAIN s.candidate_data :
          k \in DOMAIN c.candidate_data /\ c.candidate_data[k] = s.candidate_data[k]
    /\ \A coll \in Collections : c[coll] = s[coll]

\* C23: a successful 'confirm' at ConfirmSummary persists the profile and all
\* its sub-items, creates exactly one new order, awaiting payment and owned by
\* the party, sets the session's order to it and notified to false, and
\* enters Payment; and a wizard run never creates more than one order: no
\* confirm is accepted while the session holds an order this run has created.
ConfirmCreatesOneOrder ==
    [][\A u \in Parties :
          /\ (ev'.op = "confirm_yes" /\ ev'.res = "")
                => (/\ Persisted(store'[u], user_sessions[u])
                    /\ Len(orders') = Len(orders) + 1
                    /\ orders'[Len(orders')] =
                          [telegramUserId |-> u, status |-> "awaiting_payment",
                           statusDetails |-> ""]
                    /\ \A o \in DOMAIN orders : orders'[o] = orders[o]
                    /\ user_sessions'[u].order_id = Len(orders')
                    /\ user_sessions'[u].notified = "false"
                    /\ conv'[u] = PAYMENT)
          /\ ev'.op = "confirm_yes" => ~ OrderOfRun(u)]_vars

LastFieldOf(state) ==
    CASE state = COLLECT_PROFESSIONAL_INFO -> "work_description"
      [] state = COLLECT_EDUCATION -> "edu_achievementsHonors"
      [] state = COLLECT_SKILLS -> "skill_proficiency"
      [] state = COLLECT_CERTIFICATIONS -> "cert_issuer"
      [] state = COLLECT_PROJECTS -> "project_projectLink"
      [] state = COLLECT_LANGUAGES -> "lang_proficiencyLevel"

DraftAt(state) ==
    CASE state = COLLECT_PROFESSIONAL_INFO -> "current_work_experience"
      [] state = COLLECT_EDUCATION -> "current_education"
      [] state = COLLECT_SKILLS -> "current_skill"
      [] state = COLLECT_CERTIFICATIONS -> "current_certification"
      [] state = COLLECT_PROJECTS -> "current_project"
      [] state = COLLECT_LANGUAGES -> "current_language"

\* An add-another/continue decision is pending: the party is in a repeated
\* section whose last field was the last one asked and whose draft is empty.
\* Only the append that sends the keyboard leaves an empty draft at the last
\* field; both buttons and every way into the section set another field.
DecisionPending(u) ==
    /\ conv[u] \in RepeatedSections
    /\ HasSession(u)
    /\ user_sessions[u].current_field = LastFieldOf(conv[u])
    /\ user_sessions[u][DraftAt(conv[u])] = EmptyDict
    /\ kb[u][conv[u]] > 0

\* the step handles an event that is not an accepted input of the state it is
\* sent in: a button no handler of the state takes, a text at the main menu,
\* a text while a decision is pending
Unaccepted(u, e) ==
    \/ e.op = "unrouted"
    \/ e.op \in {"text", "skip"} /\ (conv[u] = START \/ DecisionPending(u))

\* C25: after an event that is not an accepted input of the party's wizard
\* state, the wizard state, the section sequences, the draft items and the
\* scalar profile fields are what they were.
UnacceptedEventIgnored ==
    [][\A u \in Parties :
          Unaccepted(u, ev')
          => (/\ conv'[u] = conv[u]
              /\ \A coll \in Collections : user_sessions'[u][coll] = user_sessions[u][coll]
              /\ \A draft \in Drafts : user_sessions'[u][draft] = user_sessions[u][draft]
              /\ user_sessions'[u].candidate_data = user_sessions[u].candidate_data)]_vars

\* the step handles a /cancel the party has sent
CancelSent(e) ==
    \/ e.op = "cancel"
    \/ e.op = "image" /\ e.upload.text = "/cancel"

\* C26: a cancel event in any wizard state removes the party's session from
\* the session table and ends the conversation, so that the party's next
\* event gets a default session with nothing carried over.
CancelTearsSessionDown ==
    [][\A u \in Parties :
          (conv[u] \in WizardStates /\ CancelSent(ev'))
          => (/\ u \notin DOMAIN user_sessions'
              /\ conv'[u] = END)]_vars

\* C27: a restart by a party that already has a session resets the session's
\* collected profile: when the party then begins a new-profile run, every
\* section sequence of the session is empty.
RestartResetsProfile ==
    [][\A u \in Parties :
          ev'.op = "new_cv"
          => \A coll \in Collections : user_sessions'[u][coll] = << >>]_vars

\* C28: once the delivery channel of a session is set, no event handled for
\* the session changes it as long as the session exists.
DeliveryChannelImmutable ==
    [][\A u \in Parties :
          (/\ u \in DOMAIN user_sessions
           /\ u \in DOMAIN user_sessions'
           /\ user_sessions[u].chat_id # 0)
          => user_sessions'[u].chat_id = user_sessions[u].chat_id]_vars

\* the profile of a run that skipped the LinkedIn profile and gave one work
\* experience: in the session and as confirm_order saved it
ScenarioProfile(s, c) ==
    /\ Len(s.workExperiences) = 1
    /\ Absent(s, "linkedinProfile")
    /\ c.exists
    /\ Len(c.workExperiences) = 1
    /\ \/ "linkedinProfile" \notin DOMAIN c.candidate_data
       \/ c.candidate_data["linkedinProfile"] = "none"

\* C29: the run from a fresh session (start, 'en', new profile, the names,
\* phone, email, 'skip' for LinkedIn, city, country, 'skip' for the image, one
\* work experience of four fields, 'continue', the remaining sections, confirm)
\* ends in PAYMENT with a new order in awaiting_payment, a work-experience
\* sequence of length exactly 1 and no LinkedIn attribute in the profile; no
\* step of the run before PAYMENT is a dead end (checked under ScenarioSpec).
ScenarioEndsInPayment ==
    \A u \in Parties :
        /\ conv[u] = PAYMENT
              => /\ Len(orders) = 1
                 /\ user_sessions[u].order_id = 1
                 /\ orders[1] = NewOrder(u)
                 /\ ScenarioProfile(user_sessions[u], store[u])
        /\ conv[u] # PAYMENT => orders = << >> /\ ENABLED ScenarioNext

\* a run has ended in PAYMENT with more than one item in a later section
ScenarioConfirmed ==
    \E u \in Parties :
        /\ conv[u] = PAYMENT
        /\ ev.op = "confirm_yes"
        /\ orders[user_sessions[u].order_id].status = "awaiting_payment"
        /\ Len(user_sessions[u].workExperiences) = 1
        /\ Len(user_sessions[u].education) = 2
        /\ user_sessions[u].candidate_data["linkedinProfile"] = "none"

TierOrder == << "cache", "get_chat", "get_chat_administrators", "get_chat_member" >>

\* C30: a call of resolve_username_to_id tries its tiers in the order cache,
\* direct lookup by handle, administrator roster scan, channel-member lookup;
\* once a tier has returned the id no later tier is invoked; the direct lookup
\* returns the id only when the chat it got is private; the call raises only
\* after all four tiers have been tried (checked under ResolveSpec).
ResolveTiersInOrder ==
    LET calls == resolver.calls IN
    /\ Len(calls) <= Len(TierOrder)
    /\ \A i \in 1 .. Len(calls) :
          /\ calls[i].tier = TierOrder[i]
          /\ calls[i].returned => i = Len(calls)
          /\ (calls[i].tier = "get_chat" /\ calls[i].returned)
                => calls[i].chat_type = "private"
    /\ resolver.raised
          => /\ Len(calls) = Len(TierOrder)
             /\ \A i \in 1 .. Len(calls) : ~ calls[i].returned
    /\ (resolver.pc = "idle" /\ calls # << >> /\ ~ resolver.raised)
          => /\ calls[Len(calls)].returned
             /\ resolver.user_id # 0
             /\ resolver.user_cache[clean_username(resolver.username)] = resolver.user_id

\* a handle resolved by the roster scan after the direct lookup gave a chat
\* that is not private
ResolvedByRoster ==
    /\ resolver.pc = "idle"
    /\ Len(resolver.calls) = 3
    /\ resolver.calls[2].chat_type = "channel"
    /\ resolver.calls[3].returned
    /\ resolver.user_id = 1

\* the account a spelling of a handle names
Account(username) == IF username \in {"@Abel", "Abel", "abel"} THEN "abel" ELSE "sara"

\* the step is the cache look-up of a call for the handle
Resolving(username) ==
    /\ resolver.pc = "idle"
    /\ resolver' # resolver
    /\ resolver'.username = username
    /\ Len(resolver'.calls) = 1

\* the step is a tier of a call that found nothing or raised
TierFailed ==
    /\ Len(resolver'.calls) = Len(resolver.calls) + 1
    /\ ~ resolver'.calls[Len(resolver'.calls)].returned

\* C31: after resolve_username_to_id has resolved a handle through an external
\* tier, every later call for the same handle, in any letter case and with or
\* without '@', returns the same id from the cache and calls no external tier;
\* a tier that fails, and so a failed resolution, adds nothing to the cache.
ResolvedStaysCached ==
    [][/\ \A r \in resolver.resolved : \A username \in Usernames :
             (Account(username) = Account(r.username) /\ Resolving(username))
             => /\ resolver'.calls = << Call("cache", TRUE, "", "") >>
                /\ resolver'.user_id = r.user_id
                /\ resolver'.pc = "idle"
                /\ ~ resolver'.raised
       /\ (Len(resolver'.calls) > 1 /\ TierFailed)
             => resolver'.user_cache = resolver.user_cache]_vars

\* a handle resolved as "abel" by an external tier is asked for as "@Abel" and
\* answered from the cache
ResolvedAgainFromCache ==
    /\ resolver.username = "@Abel"
    /\ resolver.calls = << Call("cache", TRUE, "", "") >>
    /\ resolver.user_id = 1
    /\ \E r \in resolver.resolved : r.username = "abel" /\ r.user_id = 1
    /\ \A r \in resolver.resolved : r.username # "@Abel"

\* C32: in resolve_username_to_id an exception of any kind in an external tier
\* never keeps the following tier from being tried, and the call raises
\* ValueError if and only if the cache misses and each of the three external
\* tiers raises or finds no match.
TierErrorsPassedOver ==
    LET calls == resolver.calls IN
    /\ \A i \in 1 .. Len(calls) :
          (calls[i].error # "" /\ i < Len(TierOrder))
             => \/ i < Len(calls) /\ calls[i + 1].tier = TierOrder[i + 1]
                \/ i = Len(calls) /\ resolver.pc = TierOrder[i + 1]
    /\ (resolver.pc = "idle" /\ calls # << >>)
          => (resolver.raised
                <=> /\ Len(calls) = Len(TierOrder)
                    /\ \A i \in 1 .. Len(calls) : ~ calls[i].returned)

\* a call has raised ValueError after each external tier raised
AllTiersRaised ==
    /\ resolver.pc = "idle"
    /\ resolver.raised
    /\ Len(resolver.calls) = 4
    /\ resolver.calls[2].error = "BadRequest"
    /\ resolver.calls[3].error = "Exception"
    /\ resolver.calls[4].error = "Exception"

\* a call has found the handle in the roster after get_chat raised
ResolvedAfterError ==
    /\ resolver.pc = "idle"
    /\ ~ resolver.raised
    /\ Len(resolver.calls) = 3
    /\ resolver.calls[2].error = "Exception"
    /\ resolver.calls[3].returned

\* the step starts a send of an admin handler
HandlerSendStarts == hpc = "idle" /\ hpc' \in {"btn_send", "reply_send"}

\* the step starts a send of the poller
PollSendStarts ==
    /\ poll_pc' = "send"
    /\ poll_pc = "sleep" \/ Len(poll_snap') < Len(poll_snap)

\* the session a snapshot entry refers to, after the step
SnapSessionAfter(e) == IF e.live THEN user_sessions'[e.id] ELSE e.s

\* C33: the poller, the admin-reply handler and the admin-button handler each
\* start the send of a terminal-state notification only when the order is
\* verified or rejected and the recipient session's notified is not true at
\* the moment the handler decides to send.
SendsOnlyWhileUnnotified ==
    [][/\ HandlerSendStarts
            => /\ orders'[hctx'.note.oid].status \in Terminal
               /\ ~ NotifiedGet(SessionsWith(hctx'.uid)[hctx'.uid])
       /\ PollSendStarts
            => /\ orders'[poll_msg'.oid].status \in Terminal
               /\ ~ NotifiedGet(SnapSessionAfter(Head(poll_snap')))]_vars

\* the step ends handle_admin_response after its send returned
ButtonHandlerFinishes == hpc = "btn_edit" /\ hpc' = "idle"

\* the step is the return of the send of handle_admin_reply
ReplySendReturned == hpc = "reply_send" /\ hpc' = "idle" /\ ev'.res # "send_failed"

\* the step is the return of a send of the poller to a session still in place
PollSendReturned ==
    /\ poll_pc = "send"
    /\ poll_pc' # "send" \/ Len(poll_snap') < Len(poll_snap)
    /\ ev'.res # "send_failed"
    /\ Head(poll_snap).live

\* C34: whenever the send of a terminal-state notification succeeds, notified
\* is true when the sending handler finishes, on every path, the admin-button
\* handler with a failing caption edit after the send included.
SentMeansNotified ==
    [][/\ ButtonHandlerFinishes => NotifiedGet(user_sessions'[hctx.uid])
       /\ ReplySendReturned => NotifiedGet(user_sessions'[hctx.uid])
       /\ PollSendReturned => NotifiedGet(user_sessions'[Head(poll_snap).id])]_vars

\* the notification says what the order store holds after the step
MatchesStore(note) ==
    /\ note.kind \in Terminal
    /\ orders'[note.oid].status = note.kind
    /\ IF note.kind = "rejected"
       THEN note.reason = orders'[note.oid].statusDetails
       ELSE note.reason = ""

\* C35: every terminal-state notification matches the order's persisted status
\* when its send is started: 'payment verified' is sent only when the stored
\* status is verified, 'payment rejected' only when it is rejected, with the
\* stored reason; on the poller's path as on the two admin paths.
NotificationMatchesStore ==
    [][/\ HandlerSendStarts => MatchesStore(hctx'.note)
       /\ PollSendStarts => MatchesStore(poll_msg')]_vars

\* the poller is sending the rejection of an order with the reason an admin
\* reply gave
PollerSendsStoredReason ==
    /\ poll_pc = "send"
    /\ poll_msg.kind = "rejected"
    /\ poll_msg.reason = "blurry receipt"
    /\ orders[poll_msg.oid].status = "rejected"
    /\ orders[poll_msg.oid].statusDetails = "blurry receipt"

\* the fields an item of a repeated section has when the section's questions
\* were all answered; a skipped project link is left out of the item
FieldsOf(coll) ==
    CASE coll = "workExperiences" -> WorkFields
      [] coll = "education" -> EducationFields
      [] coll = "skills" -> SkillFields
      [] coll = "certificationsAwards" -> CertificationFields
      [] coll = "projects" -> ProjectFields \ {"projectLink"}
      [] coll = "languages" -> LanguageFields

RepeatedCollections ==
    {"workExperiences", "education", "skills", "certificationsAwards", "projects",
     "languages"}

\* C36: every item of every repeated section's sequence carries a value or an
\* explicit skip for each field of its section, after any sequence of text and
\* button events: an item is appended only when all fields were collected.
ItemsAreComplete ==
    \A u \in DOMAIN user_sessions : \A coll \in RepeatedCollections :
        \A i \in 1 .. Len(user_sessions[u][coll]) :
            FieldsOf(coll) \subseteq DOMAIN user_sessions[u][coll][i]

\* sq is still the beginning of tq
StillIn(sq, tq) == Len(tq) >= Len(sq) /\ SubSeq(tq, 1, Len(sq)) = sq

\* the steps that are meant to discard items: the jumps of the edit menu, the
\* reset of 'edit', the reload of the stored profile
Discards(e) == e.op \in EditJumps \cup {"edit_no", "update_profile"}

\* C37: a skip or a 'continue' empties a section's sequence only when the
\* section was skipped outright; the items appended during the run (work
\* experiences added before a skip that follows 'add another', skills held
\* when 'continue' is chosen in Education) stay in their sequence up to the
\* summary.  Stated for the first run of a session, in which every item the
\* session holds was appended during the run.
AppendedItemsKept ==
    [][\A u \in Parties :
          (/\ u \in DOMAIN user_sessions
           /\ u \in DOMAIN user_sessions'
           /\ orders = << >>
           /\ ~ Discards(ev'))
          => \A coll \in RepeatedCollections :
                StillIn(user_sessions[u][coll], user_sessions'[u][coll])]_vars

\* the administrators of the roster whose handle names the account asked for
MembersNamed(administrators, username) ==
    {i \in 1 .. Len(administrators) :
        /\ administrators[i].username # ""
        /\ Account(administrators[i].username) = Account(username)}

\* the roster scan of a call has just ended, after a direct lookup that failed
\* or gave a chat that is not private, with the handle's owner in the roster
RosterHoldsHandle ==
    /\ resolver.pc = "idle"
    /\ Len(resolver.calls) = 3
    /\ ~ resolver.calls[1].returned
    /\ ~ resolver.calls[2].returned
    /\ resolver.calls[3].error = ""
    /\ MembersNamed(resolver.administrators, resolver.username) # {}

\* C38: in TestBot's resolver a handle that is in no cache and whose direct
\* lookup fails, but which belongs to an administrator of the channel,
\* resolves to that administrator's id and is then in both caches (checked
\* under TestResolveSpec).
TestResolvesThroughRoster ==
    RosterHoldsHandle
    => LET clean == Account(resolver.username) IN
       /\ resolver.calls[3].returned
       /\ ~ resolver.raised
       /\ \E i \in MembersNamed(resolver.administrators, resolver.username) :
             resolver.user_id = resolver.administrators[i].id
       /\ clean \in DOMAIN resolver.user_cache
       /\ clean \in DOMAIN resolver.bot_cache
       /\ resolver.user_cache[clean] = resolver.user_id
       /\ resolver.bot_cache[clean] = resolver.user_id

\* the chat a notification about order o belongs in: the chat of the session
\* of the order's owner
OwnerChat(o) == user_sessions[orders[o].telegramUserId].chat_id

\* the notifications whose send has been started and has not yet returned
InFlight ==
    (IF hpc \in {"btn_send", "reply_send"} THEN {hctx.note} ELSE {})
    \cup (IF poll_pc = "send" THEN {poll_msg} ELSE {})

\* C39: every notification about an order goes to the chat of the session of
\* the order's owner, whatever the poller's ticks, the admin replies and the
\* button tokens are, tokens naming another user than the order's owner
\* included (checked under ForgedSpec).
NotificationsReachOwner == \A note \in InFlight : note.chat = OwnerChat(note.oid)

\* the rejected orders that party u owns
OwnRejected(u) ==
    {o \in DOMAIN orders : orders[o].telegramUserId = u /\ orders[o].status = "rejected"}

\* the session of u as a handler finds it: the stored one, or a fresh one
Found(u) == IF u \in DOMAIN user_sessions THEN user_sessions[u] ELSE DefaultSession

\* the step is /payment from u, in some chat, with the query working or raising
PaymentCommandFrom(u) ==
    \E chat \in {u, GroupChat}, queryOk \in BOOLEAN : HandlePaymentCommand(u, chat, queryOk)

\* C40: /payment attaches an order to the session only if the party owns a
\* rejected order, and then the most recent one; when the party owns none the
\* command ends the conversation and leaves the session's order_id and
\* notified as they were (checked under RetrySpec and Spec).
PaymentAttachesOwnRejected ==
    [][\A u \in Users :
          PaymentCommandFrom(u)
          => LET s == user_sessions'[u] IN
             /\ (retry_conv'[u] = PAYMENT \/ s.order_id # Found(u).order_id)
                   => (/\ s.order_id \in OwnRejected(u)
                       /\ \A o \in OwnRejected(u) : o <= s.order_id
                       /\ retry_conv'[u] = PAYMENT)
             /\ OwnRejected(u) = {}
                   => (/\ retry_conv'[u] = END
                       /\ s.order_id = Found(u).order_id
                       /\ s.notified = Found(u).notified)]_vars

\* /payment has attached the later of a party's two rejected orders while the
\* other party owns a rejected order created after both
LatestOwnRejectedAttached ==
    \E u \in DOMAIN user_sessions :
       /\ retry_conv[u] = PAYMENT
       /\ Cardinality(OwnRejected(u)) = 2
       /\ user_sessions[u].order_id \in OwnRejected(u)
       /\ \E o \in DOMAIN orders :
             /\ o > user_sessions[u].order_id
             /\ orders[o].status = "rejected"
             /\ orders[o].telegramUserId # u

\* /payment of a party that owns no rejected order has left the order and the
\* flag of an earlier retry in the session
NothingToRetry ==
    \E u \in DOMAIN user_sessions :
       /\ OwnRejected(u) = {}
       /\ retry_conv[u] = END
       /\ user_sessions[u].chat_id = GroupChat
       /\ user_sessions[u].order_id # 0
       /\ user_sessions[u].notified = "true"

====
